---- MODULE Spec2Model ----
(***************************************************************************)
(* Model of the revision-set streams of mononoke's revset crate:           *)
(*   IntersectNodeStream      (revset/src/intersectnodestream.rs)          *)
(*   AncestorsNodeStream, common_ancestors, greatest_common_ancestor       *)
(*                            (revset/src/ancestors.rs)                    *)
(* A stream is an object driven by poll(); one action is one call of       *)
(* poll() on the outermost stream, including every poll it makes of its    *)
(* inputs.                                                                 *)
(***************************************************************************)
EXTENDS Integers, Sequences, FiniteSets, TLC

VARIABLES
    repo,     \* the repository and its generation cache: [parents, gen]
    isect,    \* the IntersectNodeStream object
    anc,      \* the AncestorsNodeStream object
    take,     \* the Take adapter of greatest_common_ancestor
    op,       \* which stream the caller polls
    args,     \* the arguments the stream was built from
    out,      \* the hashes the polled stream has yielded, in order
    seen,     \* the states of the inputs as the last poll() left them,
              \* before it gave up its inputs on an error
    result,   \* what the last poll() returned
    polls,    \* the number of calls of poll() the caller has counted
    buf,      \* the BytesMut the request parser reads from
    wire,     \* the bytes of the session that have not reached buf yet
    before,   \* buf as it was when parse was last called
    reply,    \* what the last call of parse or parse_batch returned
    nom       \* what the build's nom library does where its versions differ

vars == <<repo, isect, anc, take, op, args, out, seen, result, polls,
          buf, wire, before, reply, nom>>

\* the variables of the request parser
parserVars == <<buf, wire, before, reply, nom>>

-----------------------------------------------------------------------------
(* Bounds of the model *)

\* node hashes are 1..MaxHash
MaxHash == 3
\* an IntersectNodeStream is built over 0..MaxInputs inputs
MaxInputs == 2
\* common_ancestors is called with 1..MaxNodes nodes
MaxNodes == 2
\* a root's generation is 1..1+MaxSlack
MaxSlack == 1
\* the inputs of an IntersectNodeStream hold at most MaxItems hashes in all
MaxItems == 4
\* a NotReadyEmptyStream is not ready 0..MaxRepeats times
MaxRepeats == 2
\* the caller of a slow stream gives up after MaxPollCount polls
MaxPollCount == 5

Hashes == 1..MaxHash

Max(S) == CHOOSE x \in S : \A y \in S : y <= x
Min(S) == CHOOSE x \in S : \A y \in S : x <= y

Range(s) == {s[i] : i \in 1..Len(s)}

\* F applied to the value of v
With(v, F(_)) == CHOOSE r \in {F(x) : x \in {v}} : TRUE

-----------------------------------------------------------------------------
(* Poll<Option<(NodeHash, Generation)>, Error> and Poll<Option<NodeHash>, Error> *)

NotReady == [tag |-> "NotReady", hash |-> 0, gen |-> 0, err |-> 0]
ReadyNone == [tag |-> "End", hash |-> 0, gen |-> 0, err |-> 0]
ReadySome(h, g) == [tag |-> "Item", hash |-> h, gen |-> g, err |-> 0]
Err(e) == [tag |-> "Err", hash |-> 0, gen |-> 0, err |-> e]
\* before the first poll
NoResult == [tag |-> "None", hash |-> 0, gen |-> 0, err |-> 0]

-----------------------------------------------------------------------------
(* The repository and the generation cache (external collaborators) *)

RECURSIVE SetToSeq(_)
SetToSeq(S) == IF S = {} THEN <<>>
               ELSE <<Min(S)>> \o SetToSeq(S \ {Min(S)})

\* parent edges go from a hash to smaller hashes, so the graph is acyclic;
\* a changeset has at most two parents
ParentMaps ==
    { f \in [Hashes -> SUBSET Hashes] :
        \A h \in Hashes : (\A p \in f[h] : p < h) /\ Cardinality(f[h]) <= 2 }

\* generation of h: above the generation of every parent, by 1 + slack[h]
RECURSIVE GenOf(_, _, _)
GenOf(f, slack, h) ==
    1 + slack[h]
      + (IF f[h] = {} THEN 0 ELSE Max({GenOf(f, slack, p) : p \in f[h]}))

Repos ==
    { [parents |-> f, gen |-> [h \in Hashes |-> GenOf(f, slack, h)]] :
        f \in ParentMaps, slack \in [Hashes -> 0..MaxSlack] }

\* the repositories whose generations are what the generation cache computes:
\* the length of the longest path to a root
LongestPathRepos ==
    { [parents |-> f, gen |-> [h \in Hashes |-> GenOf(f, [x \in Hashes |-> 0], h)]] :
        f \in ParentMaps }

\* the transitive parent-closure of h, including h
RECURSIVE Closure(_, _)
Closure(r, h) == {h} \cup UNION {Closure(r, p) : p \in r.parents[h]}

-----------------------------------------------------------------------------
(* AncestorsNodeStream *)

\* iteration order of a HashSet or HashMap: unspecified; the element pick
\* comes first when present
RECURSIVE IterOrder(_, _)
IterOrder(S, pick) ==
    IF S = {} THEN <<>>
    ELSE IF pick \in S THEN <<pick>> \o IterOrder(S \ {pick}, pick)
    ELSE <<Min(S)>> \o IterOrder(S \ {Min(S)}, pick)

\* a bug: a hash is looked up among its own parents
RECURSIVE ParentsOfWithSelf(_, _)
ParentsOfWithSelf(r, order) ==
    IF order = <<>> THEN <<>>
    ELSE With(SetToSeq(r.parents[Head(order)] \cup {Head(order)}),
              LAMBDA ps : [i \in 1..Len(ps) |-> [hash |-> ps[i], gen |-> r.gen[ps[i]]]])
         \o ParentsOfWithSelf(r, Tail(order))

\* the parents of each hash, in order, each tagged with its generation
RECURSIVE ParentsOf(_, _)
ParentsOf(r, order) ==
    IF order = <<>> THEN <<>>
    ELSE With(SetToSeq(r.parents[Head(order)]),
              LAMBDA ps : [i \in 1..Len(ps) |-> [hash |-> ps[i], gen |-> r.gen[ps[i]]]])
         \o ParentsOf(r, Tail(order))

make_pending(r, hashes, pick) == ParentsOf(r, IterOrder(hashes, pick))

EmptyMap == [g \in {} |-> {}]

AncestorsNew(r, hash) ==
    [ next_generation |-> EmptyMap,
      pending_changesets |-> make_pending(r, {hash}, hash),
      drain |-> {hash} ]

\* a bug: the bucket is overwritten, next_generation.insert(generation, {hash})
BucketInsertOverwrite(ng, item) ==
    [g \in DOMAIN ng \cup {item.gen} |->
        IF g = item.gen THEN {item.hash} ELSE ng[g]]

\* next_generation.entry(generation).or_insert_with(HashSet::new).insert(hash)
BucketInsert(ng, item) ==
    [g \in DOMAIN ng \cup {item.gen} |->
        (IF g \in DOMAIN ng THEN ng[g] ELSE {}) \cup
        (IF g = item.gen THEN {item.hash} ELSE {})]

RECURSIVE BucketAll(_, _)
BucketAll(ng, items) ==
    IF items = <<>> THEN ng
    ELSE BucketAll(BucketInsert(ng, Head(items)), Tail(items))

\* a bug: keys().min()
LowestGeneration(ng) == Min(DOMAIN ng)

\* self.next_generation.keys().max()
HighestGeneration(ng) == Max(DOMAIN ng)

\* a bug: the bucket is read with get() and stays in next_generation
NextWaveKeepsBucket(ng, r, pick) ==
    IF DOMAIN ng = {}
    THEN [stream |-> [next_generation |-> ng, pending_changesets |-> <<>>,
                      drain |-> {}],
          res |-> ReadyNone]
    ELSE With(IterOrder(ng[Max(DOMAIN ng)], pick), LAMBDA current_generation :
           [stream |->
              [ next_generation |-> ng,
                pending_changesets |-> ParentsOf(r, current_generation),
                drain |-> Range(Tail(current_generation)) ],
            res |-> ReadySome(Head(current_generation), 0)])

\* the tail of poll, once pending_changesets has ended with next_generation = ng
NextWave(ng, r, pick) ==
    IF DOMAIN ng = {}
    THEN [stream |-> [next_generation |-> ng, pending_changesets |-> <<>>,
                      drain |-> {}],
          res |-> ReadyNone]
    ELSE With(HighestGeneration(ng), LAMBDA highest_generation :
         With(IterOrder(ng[highest_generation], pick), LAMBDA current_generation :
           [stream |->
              [ next_generation |->
                  [g \in DOMAIN ng \ {highest_generation} |-> ng[g]],
                pending_changesets |-> ParentsOf(r, current_generation),
                drain |-> Range(Tail(current_generation)) ],
            res |-> ReadySome(Head(current_generation), 0)]))

\* a bug: what pending_changesets delivered before it was not ready is dropped
AncestorsPollDropsOnStall(s, r, stallAfter, pick) ==
    IF s.drain # {}
    THEN With(Head(IterOrder(s.drain, pick)), LAMBDA h :
           [stream |-> [s EXCEPT !.drain = s.drain \ {h}],
            res |-> ReadySome(h, 0)])
    ELSE IF stallAfter <= Len(s.pending_changesets)
    THEN [stream |->
            [s EXCEPT !.pending_changesets =
                        SubSeq(@, stallAfter + 1, Len(@))],
          res |-> NotReady]
    ELSE With(BucketAll(s.next_generation, s.pending_changesets),
              LAMBDA ng : NextWave(ng, r, pick))

\* One call of AncestorsNodeStream::poll. pending_changesets delivers
\* stallAfter items and is then not ready; when stallAfter exceeds what it
\* holds it delivers everything and ends.
AncestorsPoll(s, r, stallAfter, pick) ==
    IF s.drain # {}
    THEN With(Head(IterOrder(s.drain, pick)), LAMBDA h :
           [stream |-> [s EXCEPT !.drain = s.drain \ {h}],
            res |-> ReadySome(h, 0)])
    ELSE IF stallAfter <= Len(s.pending_changesets)
    THEN [stream |->
            [s EXCEPT !.next_generation =
                        BucketAll(@, SubSeq(s.pending_changesets, 1, stallAfter)),
                      !.pending_changesets =
                        SubSeq(@, stallAfter + 1, Len(@))],
          res |-> NotReady]
    ELSE With(BucketAll(s.next_generation, s.pending_changesets),
              LAMBDA ng : NextWave(ng, r, pick))

\* the hashes an AncestorsNodeStream yields when it is polled to its end and
\* no lookup is ever not ready
RECURSIVE RunAncestors(_, _, _)
RunAncestors(s, r, acc) ==
    With(AncestorsPoll(s, r, Len(s.pending_changesets) + 1, Min(Hashes)), LAMBDA p :
      IF p.res.tag = "Item" THEN RunAncestors(p.stream, r, Append(acc, p.res.hash))
      ELSE acc)

-----------------------------------------------------------------------------
(* The inputs of an IntersectNodeStream: add_generations over a NodeStream *)

NoAncestors == [next_generation |-> EmptyMap, pending_changesets |-> <<>>, drain |-> {}]

\* a NodeStream that yields the hashes of rest and then ends or fails
ScriptStream(items, term) ==
    [kind |-> "script", rest |-> items, term |-> term, future |-> 0,
     anc |-> NoAncestors, seed |-> 0, poll_count |-> 0, inner |-> <<>>]

\* NotReadyEmptyStream { poll_count }: not ready poll_count times, then ends
NotReadyEmptyStream(poll_count) ==
    [kind |-> "notready", rest |-> <<>>, term |-> "End", future |-> 0,
     anc |-> NoAncestors, seed |-> 0, poll_count |-> poll_count, inner |-> <<>>]

\* an AncestorsNodeStream as a NodeStream
AncestorsStream(seed, a) ==
    [kind |-> "ancestors", rest |-> <<>>, term |-> "End", future |-> 0,
     anc |-> a, seed |-> seed, poll_count |-> 0, inner |-> <<>>]

\* an IntersectNodeStream as a NodeStream
IntersectStream(st) ==
    [kind |-> "intersect", rest |-> <<>>, term |-> "End", future |-> 0,
     anc |-> NoAncestors, seed |-> 0, poll_count |-> 0, inner |-> st]

\* One call of IntersectNodeStream::poll, defined below
RECURSIVE IntersectPoll(_, _, _)

\* the budgets of the inputs of a boxed IntersectNodeStream whose I/O has
\* completed (every input answers) or has not (none does)
InnerBudget(st, ready) ==
    [j \in 1..Len(st.inputs) |-> IF ready THEN Len(st.inputs[j].stream.rest) + 2 ELSE 0]

\* One poll of the NodeStream under add_generations. ready: whether the
\* stream's I/O has completed; i names the error the stream reports.
PollNodeStream(s, i, ready, pick) ==
    IF s.kind = "ancestors"
    THEN With(AncestorsPoll(s.anc, repo,
                 IF ready THEN Len(s.anc.pending_changesets) + 1 ELSE 0, pick),
              LAMBDA p : [stream |-> [s EXCEPT !.anc = p.stream], res |-> p.res])
    ELSE IF s.kind = "notready"
    THEN IF s.poll_count = 0 THEN [stream |-> s, res |-> ReadyNone]
         ELSE [stream |-> [s EXCEPT !.poll_count = @ - 1], res |-> NotReady]
    ELSE IF s.kind = "intersect"
    THEN With(IntersectPoll(s.inner, InnerBudget(s.inner, ready), pick),
              LAMBDA p : [stream |-> [s EXCEPT !.inner = p.st], res |-> p.res])
    ELSE IF ~ready THEN [stream |-> s, res |-> NotReady]
    ELSE IF s.rest = <<>>
    THEN [stream |-> s, res |-> IF s.term = "Err" THEN Err(i) ELSE ReadyNone]
    ELSE [stream |-> [s EXCEPT !.rest = Tail(s.rest)],
          res |-> ReadySome(Head(s.rest), 0)]

\* add_generations: stream.and_then(|hash| repo_generation.get(hash)): a hash
\* taken from the stream is held in future until its generation is known
add_generations(s, i, ready, pick) ==
    IF s.future # 0
    THEN IF ready
         THEN [stream |-> [s EXCEPT !.future = 0],
               res |-> ReadySome(s.future, repo.gen[s.future])]
         ELSE [stream |-> s, res |-> NotReady]
    ELSE With(PollNodeStream(s, i, ready, pick), LAMBDA p :
           IF p.res.tag # "Item" THEN p
           ELSE IF ready
           THEN [stream |-> p.stream,
                 res |-> ReadySome(p.res.hash, repo.gen[p.res.hash])]
           ELSE [stream |-> [p.stream EXCEPT !.future = p.res.hash],
                 res |-> NotReady])

\* setcommon::poll_all_inputs: poll every input whose state is NotReady.
\* budget[i] is the number of polls input i answers before it is not ready.
poll_all_inputs(inputs, budget, pick) ==
    [inputs |->
       [i \in 1..Len(inputs) |->
          IF inputs[i].state.tag = "NotReady"
          THEN With(add_generations(inputs[i].stream, i, budget[i] > 0, pick),
                    LAMBDA p : [stream |-> p.stream, state |-> p.res])
          ELSE inputs[i]],
     budget |->
       [i \in 1..Len(inputs) |->
          IF inputs[i].state.tag = "NotReady" /\ budget[i] > 0
          THEN budget[i] - 1 ELSE budget[i]]]

\* setcommon::all_inputs_ready
all_inputs_ready(inputs) ==
    \A i \in 1..Len(inputs) : inputs[i].state.tag \in {"Item", "End"}

-----------------------------------------------------------------------------
(* IntersectNodeStream *)

NoDrain == [some |-> FALSE, items |-> [h \in Hashes |-> 0]]

IntersectNew(streams) ==
    [ inputs |-> [i \in 1..Len(streams) |-> [stream |-> streams[i], state |-> NotReady]],
      current_generation |-> {},
      accumulator |-> [h \in Hashes |-> 0],
      drain |-> NoDrain ]

\* HashMap::is_empty: a count of 0 stands for an absent key
IsEmpty(m) == \A h \in Hashes : m[h] = 0

\* the generations of the inputs' current heads
HeadGenerations(inputs) ==
    {inputs[i].state.gen : i \in {j \in 1..Len(inputs) : inputs[j].state.tag = "Item"}}

\* a bug: the generation is never taken from the heads
update_current_generation_never(st) == st

\* a bug: the highest generation among the heads is taken
update_current_generation_max(st) ==
    IF all_inputs_ready(st.inputs)
    THEN With(HeadGenerations(st.inputs), LAMBDA gens :
           [st EXCEPT !.current_generation = IF gens = {} THEN {} ELSE {Max(gens)}])
    ELSE st

update_current_generation(st) ==
    IF all_inputs_ready(st.inputs)
    THEN With(HeadGenerations(st.inputs), LAMBDA gens :
           [st EXCEPT !.current_generation = IF gens = {} THEN {} ELSE {Min(gens)}])
    ELSE st

\* Some(gen_id) == self.current_generation
GenEq(g, cur) == cur = {g}
\* Some(gen_id) >= self.current_generation (None is below every Some)
GenGe(g, cur) == \A c \in cur : g >= c

\* a bug: when no input contributed, the next generation is taken at once and
\* the accumulator is not drained first
accumulate_nodes_no_drain(st) ==
    With({i \in 1..Len(st.inputs) :
            /\ st.inputs[i].state.tag = "Item"
            /\ GenEq(st.inputs[i].state.gen, st.current_generation)},
         LAMBDA counted :
    With({i \in 1..Len(st.inputs) :
            /\ st.inputs[i].state.tag = "Item"
            /\ GenGe(st.inputs[i].state.gen, st.current_generation)},
         LAMBDA consumed :
      IF consumed = {} THEN update_current_generation(st)
      ELSE
      [ inputs |->
          [i \in 1..Len(st.inputs) |->
             IF i \in consumed THEN [st.inputs[i] EXCEPT !.state = NotReady]
             ELSE st.inputs[i]],
        current_generation |-> st.current_generation,
        accumulator |->
          [h \in Hashes |->
             st.accumulator[h]
               + Cardinality({i \in counted : st.inputs[i].state.hash = h})],
        drain |-> st.drain ]))

\* a bug: found_hashes is set only by a head of the current generation
accumulate_nodes_found_on_equal(st) ==
    With({i \in 1..Len(st.inputs) :
            /\ st.inputs[i].state.tag = "Item"
            /\ GenEq(st.inputs[i].state.gen, st.current_generation)},
         LAMBDA counted :
    With({i \in 1..Len(st.inputs) :
            /\ st.inputs[i].state.tag = "Item"
            /\ GenGe(st.inputs[i].state.gen, st.current_generation)},
         LAMBDA consumed :
      [ inputs |->
          [i \in 1..Len(st.inputs) |->
             IF i \in consumed THEN [st.inputs[i] EXCEPT !.state = NotReady]
             ELSE st.inputs[i]],
        current_generation |->
          IF counted # {} THEN st.current_generation ELSE {},
        accumulator |->
          [h \in Hashes |->
             st.accumulator[h]
               + Cardinality({i \in counted : st.inputs[i].state.hash = h})],
        drain |-> st.drain ]))

\* a bug: a head above the current generation is counted as well
accumulate_nodes_counts_higher(st) ==
    With({i \in 1..Len(st.inputs) :
            /\ st.inputs[i].state.tag = "Item"
            /\ GenGe(st.inputs[i].state.gen, st.current_generation)},
         LAMBDA consumed :
      [ inputs |->
          [i \in 1..Len(st.inputs) |->
             IF i \in consumed THEN [st.inputs[i] EXCEPT !.state = NotReady]
             ELSE st.inputs[i]],
        current_generation |->
          IF consumed # {} THEN st.current_generation ELSE {},
        accumulator |->
          [h \in Hashes |->
             st.accumulator[h]
               + Cardinality({i \in consumed : st.inputs[i].state.hash = h})],
        drain |-> st.drain ])

accumulate_nodes(st) ==
    With({i \in 1..Len(st.inputs) :
            /\ st.inputs[i].state.tag = "Item"
            /\ GenEq(st.inputs[i].state.gen, st.current_generation)},
         LAMBDA counted :
    With({i \in 1..Len(st.inputs) :
            /\ st.inputs[i].state.tag = "Item"
            /\ GenGe(st.inputs[i].state.gen, st.current_generation)},
         LAMBDA consumed :
      [ inputs |->
          [i \in 1..Len(st.inputs) |->
             IF i \in consumed THEN [st.inputs[i] EXCEPT !.state = NotReady]
             ELSE st.inputs[i]],
        \* found_hashes
        current_generation |->
          IF consumed # {} THEN st.current_generation ELSE {},
        accumulator |->
          [h \in Hashes |->
             st.accumulator[h]
               + Cardinality({i \in counted : st.inputs[i].state.hash = h})],
        drain |-> st.drain ]))

\* a bug: every input has to have ended
any_input_finished_all(st) ==
    \A i \in 1..Len(st.inputs) : st.inputs[i].state.tag = "End"

any_input_finished(st) ==
    IF Len(st.inputs) = 0 THEN TRUE
    ELSE \E i \in 1..Len(st.inputs) : st.inputs[i].state.tag = "End"

\* a bug: every drained entry is returned, whatever its count
DrainFlushAnyCount(st, pick) ==
    IF ~st.drain.some THEN [st |-> st, res |-> NoResult]
    ELSE
      With(IterOrder({h \in Hashes : st.drain.items[h] > 0}, pick), LAMBDA order :
        IF order = <<>>
        THEN [st |-> [st EXCEPT !.drain = NoDrain], res |-> NoResult]
        ELSE [st |-> [st EXCEPT !.drain.items[order[1]] = 0],
              res |-> ReadySome(order[1], 0)])

\* a bug: the entry that is returned stays in the drain
DrainFlushKeepsYielded(st, pick) ==
    IF ~st.drain.some THEN [st |-> st, res |-> NoResult]
    ELSE
      With(IterOrder({h \in Hashes : st.drain.items[h] > 0}, pick), LAMBDA order :
      With({j \in 1..Len(order) : st.drain.items[order[j]] = Len(st.inputs)},
           LAMBDA full :
        IF full = {}
        THEN [st |-> [st EXCEPT !.drain = NoDrain], res |-> NoResult]
        ELSE [st |-> [st EXCEPT !.drain.items =
                        [h \in Hashes |->
                           IF h \in {order[k] : k \in 1..(Min(full) - 1)}
                           THEN 0 ELSE @[h]]],
              res |-> ReadySome(order[Min(full)], 0)]))

\* the while loop over self.drain: the first entry, in iteration order, whose
\* count is the number of inputs is returned; the entries before it are dropped
DrainFlush(st, pick) ==
    IF ~st.drain.some THEN [st |-> st, res |-> NoResult]
    ELSE
      With(IterOrder({h \in Hashes : st.drain.items[h] > 0}, pick), LAMBDA order :
      With({j \in 1..Len(order) : st.drain.items[order[j]] = Len(st.inputs)},
           LAMBDA full :
        IF full = {}
        THEN [st |-> [st EXCEPT !.drain = NoDrain], res |-> NoResult]
        ELSE [st |-> [st EXCEPT !.drain.items =
                        [h \in Hashes |->
                           IF h \in {order[k] : k \in 1..Min(full)} THEN 0 ELSE @[h]]],
              res |-> ReadySome(order[Min(full)], 0)]))

\* a bug: errors are looked at only once no input is not ready
InErrorAfterBarrier(inputs) ==
    IF \E i \in 1..Len(inputs) : inputs[i].state.tag = "NotReady" THEN {}
    ELSE {i \in 1..Len(inputs) : inputs[i].state.tag = "Err"}

\* the inputs in error
InError(inputs) == {i \in 1..Len(inputs) : inputs[i].state.tag = "Err"}

\* a bug: the accumulator of a finished generation is thrown away
AdvanceDropsAccumulator(st) ==
    IF st.current_generation = {}
    THEN IF IsEmpty(st.accumulator)
         THEN update_current_generation(st)
         ELSE [st EXCEPT !.accumulator = [h \in Hashes |-> 0]]
    ELSE accumulate_nodes(st)

\* the match on self.current_generation
Advance(st) ==
    IF st.current_generation = {}
    THEN IF IsEmpty(st.accumulator)
         THEN update_current_generation(st)
         ELSE [st EXCEPT !.accumulator = [h \in Hashes |-> 0],
                         !.drain = [some |-> TRUE, items |-> st.accumulator]]
    ELSE accumulate_nodes(st)

\* a bug: the accumulator is not looked at
FinishedIgnoresAccumulator(st) ==
    ~st.drain.some /\ any_input_finished(st)

\* "If we cannot ever output another node, we're done."
Finished(st) ==
    ~st.drain.some /\ IsEmpty(st.accumulator) /\ any_input_finished(st)

\* a bug: "return Ok(Async::NotReady)" where the loop goes round again
IntersectPollOnce(st, budget, pick) ==
    With(poll_all_inputs(st.inputs, budget, pick), LAMBDA p :
    With(DrainFlush([st EXCEPT !.inputs = p.inputs], pick), LAMBDA d :
      IF d.res.tag = "Item" THEN [st |-> d.st, res |-> d.res, taken |-> <<>>]
      ELSE IF InError(d.st.inputs) # {}
      THEN [st |-> [d.st EXCEPT !.inputs = <<>>],
            res |-> d.st.inputs[Min(InError(d.st.inputs))].state,
            taken |-> d.st.inputs]
      ELSE IF ~all_inputs_ready(d.st.inputs)
      THEN [st |-> d.st, res |-> NotReady, taken |-> <<>>]
      ELSE With(Advance(d.st), LAMBDA a :
             IF Finished(a) THEN [st |-> a, res |-> ReadyNone, taken |-> <<>>]
             ELSE [st |-> a, res |-> NotReady, taken |-> <<>>])))

\* a bug: the inputs are kept when an input's error is returned
IntersectPollKeepsInputs(st, budget, pick) ==
    With(poll_all_inputs(st.inputs, budget, pick), LAMBDA p :
    With(DrainFlush([st EXCEPT !.inputs = p.inputs], pick), LAMBDA d :
      IF d.res.tag = "Item" THEN [st |-> d.st, res |-> d.res, taken |-> <<>>]
      ELSE IF InError(d.st.inputs) # {}
      THEN [st |-> d.st,
            res |-> d.st.inputs[Min(InError(d.st.inputs))].state,
            taken |-> d.st.inputs]
      ELSE IF ~all_inputs_ready(d.st.inputs)
      THEN [st |-> d.st, res |-> NotReady, taken |-> <<>>]
      ELSE With(Advance(d.st), LAMBDA a :
             IF Finished(a) THEN [st |-> a, res |-> ReadyNone, taken |-> <<>>]
             ELSE IntersectPoll(a, p.budget, pick))))

\* a bug: a stream without inputs is not ready
IntersectPollNoInputsNotReady(st, budget, pick) ==
    IF Len(st.inputs) = 0 THEN [st |-> st, res |-> NotReady, taken |-> <<>>]
    ELSE
    With(poll_all_inputs(st.inputs, budget, pick), LAMBDA p :
    With(DrainFlush([st EXCEPT !.inputs = p.inputs], pick), LAMBDA d :
      IF d.res.tag = "Item" THEN [st |-> d.st, res |-> d.res, taken |-> <<>>]
      ELSE IF InError(d.st.inputs) # {}
      THEN [st |-> [d.st EXCEPT !.inputs = <<>>],
            res |-> d.st.inputs[Min(InError(d.st.inputs))].state,
            taken |-> d.st.inputs]
      ELSE IF ~all_inputs_ready(d.st.inputs)
      THEN [st |-> d.st, res |-> NotReady, taken |-> <<>>]
      ELSE With(Advance(d.st), LAMBDA a :
             IF Finished(a) THEN [st |-> a, res |-> ReadyNone, taken |-> <<>>]
             ELSE IntersectPoll(a, p.budget, pick))))

\* One call of IntersectNodeStream::poll: the loop, until it returns
IntersectPoll(st, budget, pick) ==
    With(poll_all_inputs(st.inputs, budget, pick), LAMBDA p :
    With(DrainFlush([st EXCEPT !.inputs = p.inputs], pick), LAMBDA d :
      IF d.res.tag = "Item" THEN [st |-> d.st, res |-> d.res, taken |-> <<>>]
      ELSE IF InError(d.st.inputs) # {}
      THEN [st |-> [d.st EXCEPT !.inputs = <<>>],
            res |-> d.st.inputs[Min(InError(d.st.inputs))].state,
            taken |-> d.st.inputs]
      ELSE IF ~all_inputs_ready(d.st.inputs)
      THEN [st |-> d.st, res |-> NotReady, taken |-> <<>>]
      ELSE With(Advance(d.st), LAMBDA a :
             IF Finished(a) THEN [st |-> a, res |-> ReadyNone, taken |-> <<>>]
             ELSE IntersectPoll(a, p.budget, pick))))

-----------------------------------------------------------------------------
(* The caller *)

NoIntersect == IntersectNew(<<>>)
NoTake == [on |-> FALSE, remaining |-> 0]

\* no call of parse or parse_batch has been made
NoReply == [tag |-> "NoCall", request |-> <<>>, buffer |-> <<>>, cause |-> ""]

\* the request parser is not in use
ParserIdle ==
    /\ buf = <<>>
    /\ wire = <<>>
    /\ before = <<>>
    /\ reply = NoReply
    /\ nom = [until1 |-> TRUE]

\* the caller stops polling after end-of-stream
Live == result.tag # "End"

Emit(res) ==
    /\ result' = res
    /\ out' = IF res.tag = "Item" THEN Append(out, res.hash) ELSE out

\* what the poll that returned p saw of its inputs
Seen(p) ==
    With(IF p.taken # <<>> THEN p.taken ELSE p.st.inputs,
         LAMBDA inputs : [i \in 1..Len(inputs) |-> inputs[i].state])

-----------------------------------------------------------------------------
(* Polling AncestorsNodeStream::new(seed) *)

InitAncestors ==
    /\ repo \in Repos
    /\ op = "ancestors"
    /\ args \in {<<seed>> : seed \in Hashes}
    /\ anc = AncestorsNew(repo, args[1])
    /\ isect = NoIntersect
    /\ take = NoTake
    /\ out = <<>>
    /\ seen = <<>>
    /\ result = NoResult
    /\ polls = 0
    /\ ParserIdle

PollAncestors ==
    /\ op = "ancestors"
    /\ Live
    /\ \E pick \in Hashes, stallAfter \in 0..(Len(anc.pending_changesets) + 1) :
         \E p \in {AncestorsPoll(anc, repo, stallAfter, pick)} :
            /\ anc' = p.stream
            /\ Emit(p.res)
    /\ UNCHANGED <<repo, isect, take, op, args, seen, polls, parserVars>>

NextAncestors == PollAncestors

SpecAncestors == InitAncestors /\ [][NextAncestors]_vars

\* The caller polls again and every lookup completes in the end: a poll that
\* changes the state is made as long as there is one.
SpecAncestorsFair == SpecAncestors /\ WF_vars(NextAncestors)

-----------------------------------------------------------------------------
(* Polling AncestorsNodeStream::new(seed) when lookups fail: bad.missing are
   the hashes get_changeset_by_nodeid fails for, bad.nogen the hashes the
   generation cache fails for *)

\* ErrorKind::ParentsFetchFailed and ErrorKind::GenerationFetchFailed
ParentsFetchFailed == 1
GenerationFetchFailed == 2

\* what make_pending's stream delivers for the hashes of order: the parents of
\* each hash with their generations, an error in the place of a lookup that
\* fails
RECURSIVE Lookups(_, _, _)
Lookups(r, bad, order) ==
    IF order = <<>> THEN <<>>
    ELSE (IF Head(order) \in bad.missing
          THEN <<[hash |-> Head(order), gen |-> 0, err |-> ParentsFetchFailed]>>
          ELSE With(SetToSeq(r.parents[Head(order)]), LAMBDA ps :
                 [i \in 1..Len(ps) |->
                    IF ps[i] \in bad.nogen
                    THEN [hash |-> ps[i], gen |-> 0, err |-> GenerationFetchFailed]
                    ELSE [hash |-> ps[i], gen |-> r.gen[ps[i]], err |-> 0]]))
         \o Lookups(r, bad, Tail(order))

\* the place of the first failed lookup in pending, 0 when there is none
FirstError(pending) ==
    With({i \in 1..Len(pending) : pending[i].err # 0}, LAMBDA failed :
      IF failed = {} THEN 0 ELSE Min(failed))

FallibleNew(r, bad, hash) ==
    [AncestorsNew(r, hash) EXCEPT !.pending_changesets = Lookups(r, bad, <<hash>>)]

\* a bug: pending_changesets is polled before the drain is looked at
FalliblePollEager(s, r, bad, stallAfter, pick) ==
    With(FirstError(s.pending_changesets), LAMBDA e :
      IF e # 0 /\ (stallAfter >= e)
      THEN [stream |->
              [s EXCEPT !.next_generation =
                          BucketAll(@, SubSeq(s.pending_changesets, 1, e - 1)),
                        !.pending_changesets = SubSeq(@, e + 1, Len(@))],
            res |-> Err(s.pending_changesets[e].err)]
      ELSE IF s.drain # {} \/ stallAfter <= Len(s.pending_changesets)
      THEN AncestorsPoll(s, r, stallAfter, pick)
      ELSE With(BucketAll(s.next_generation, s.pending_changesets), LAMBDA ng :
           With(NextWave(ng, r, pick), LAMBDA w :
             IF DOMAIN ng = {} THEN w
             ELSE [w EXCEPT !.stream.pending_changesets =
                     Lookups(r, bad, IterOrder(ng[HighestGeneration(ng)], pick))])))

\* One call of AncestorsNodeStream::poll: the drain first; then
\* pending_changesets, whose error poll()? returns as it is met
FalliblePoll(s, r, bad, stallAfter, pick) ==
    IF s.drain # {} THEN AncestorsPoll(s, r, stallAfter, pick)
    ELSE
    With(FirstError(s.pending_changesets), LAMBDA e :
      IF e # 0 /\ (stallAfter >= e)
      THEN [stream |->
              [s EXCEPT !.next_generation =
                          BucketAll(@, SubSeq(s.pending_changesets, 1, e - 1)),
                        !.pending_changesets = SubSeq(@, e + 1, Len(@))],
            res |-> Err(s.pending_changesets[e].err)]
      ELSE IF stallAfter <= Len(s.pending_changesets)
      THEN AncestorsPoll(s, r, stallAfter, pick)
      ELSE With(BucketAll(s.next_generation, s.pending_changesets), LAMBDA ng :
           With(NextWave(ng, r, pick), LAMBDA w :
             IF DOMAIN ng = {} THEN w
             ELSE [w EXCEPT !.stream.pending_changesets =
                     Lookups(r, bad, IterOrder(ng[HighestGeneration(ng)], pick))])))

InitFallible ==
    /\ repo \in LongestPathRepos
    /\ op = "fallible"
    /\ args \in {[seed |-> seed, missing |-> missing, nogen |-> nogen] :
                   seed \in Hashes, missing \in SUBSET Hashes, nogen \in SUBSET Hashes}
    /\ anc = FallibleNew(repo, args, args.seed)
    /\ isect = NoIntersect
    /\ take = NoTake
    /\ out = <<>>
    /\ seen = <<>>
    /\ result = NoResult
    /\ polls = 0
    /\ ParserIdle

\* the caller stops polling after end-of-stream and after an error
PollFallible ==
    /\ op = "fallible"
    /\ result.tag \notin {"End", "Err"}
    /\ \E pick \in Hashes, stallAfter \in 0..(Len(anc.pending_changesets) + 1) :
         \E p \in {FalliblePoll(anc, repo, args, stallAfter, pick)} :
            /\ anc' = p.stream
            /\ Emit(p.res)
    /\ UNCHANGED <<repo, isect, take, op, args, seen, polls, parserVars>>

NextFallible == PollFallible

SpecFallible == InitFallible /\ [][NextFallible]_vars

-----------------------------------------------------------------------------
(* Polling IntersectNodeStream::new(inputs) over scripted inputs *)

\* a repository with two hashes in every generation
LadderRepo ==
    [parents |-> [h \in Hashes |-> {p \in Hashes : (p + 1) \div 2 = ((h + 1) \div 2) - 1}],
     gen |-> [h \in Hashes |-> (h + 1) \div 2]]

\* a repository whose root has every other hash as a child
ForkRepo ==
    [parents |-> [h \in Hashes |-> IF h = Min(Hashes) THEN {} ELSE {Min(Hashes)}],
     gen |-> [h \in Hashes |-> IF h = Min(Hashes) THEN 1 ELSE 2]]

\* the hash sequences an input may yield: no hash twice, generations
\* non-increasing
OrderedSeqs(r) ==
    { s \in UNION {[1..n -> Hashes] : n \in 0..MaxHash} :
        /\ \A i, j \in 1..Len(s) : i # j => s[i] # s[j]
        /\ \A i \in 1..(Len(s) - 1) : r.gen[s[i + 1]] <= r.gen[s[i]] }

Scripts(r) == {[items |-> s, term |-> t] : s \in OrderedSeqs(r), t \in {"End", "Err"}}

RECURSIVE TotalItems(_)
TotalItems(a) == IF a = <<>> THEN 0 ELSE Len(Head(a).items) + TotalItems(Tail(a))

ScriptArgs(r) ==
    {a \in UNION {[1..n -> Scripts(r)] : n \in 0..MaxInputs} : TotalItems(a) <= MaxItems}

InitIntersect ==
    /\ repo = LadderRepo
    /\ op = "intersect"
    /\ args \in ScriptArgs(repo)
    /\ isect = IntersectNew([i \in 1..Len(args) |-> ScriptStream(args[i].items, args[i].term)])
    /\ anc = NoAncestors
    /\ take = NoTake
    /\ out = <<>>
    /\ seen = <<>>
    /\ result = NoResult
    /\ polls = 0
    /\ ParserIdle

\* How many polls each input answers before it is not ready, in one call of
\* poll: an input is polled at most once per hash it has left and once for its
\* end, so larger budgets all mean "ready throughout"; an input whose end or
\* error has been seen is not polled again.
MaxPolls(input) ==
    IF input.state.tag \in {"End", "Err"} THEN 0
    ELSE IF input.stream.kind = "notready" THEN 0
    ELSE IF input.stream.kind = "script" THEN Len(input.stream.rest) + 1
    ELSE IF input.stream.kind = "intersect" THEN MaxHash + 1
    ELSE Cardinality(Closure(repo, input.stream.seed)) + 1

\* The iteration orders one call of poll can meet. Only hashes the stream can
\* hold are iterated over, and an order led by a hash outside a set is the
\* order led by the set's least hash.
RECURSIVE Held(_)
Held(st) ==
    UNION {IF st.inputs[i].stream.kind = "intersect"
           THEN Held(st.inputs[i].stream.inner)
           ELSE IF st.inputs[i].stream.kind # "ancestors"
           THEN Range(st.inputs[i].stream.rest)
           ELSE Closure(repo, st.inputs[i].stream.seed) : i \in 1..Len(st.inputs)}
    \cup {h \in Hashes : st.accumulator[h] > 0 \/ st.drain.items[h] > 0}
    \cup {st.inputs[i].state.hash : i \in {j \in 1..Len(st.inputs) : st.inputs[j].state.tag = "Item"}}

Picks(st) == With(Held(st), LAMBDA held : IF held = {} THEN {Min(Hashes)} ELSE held)

Budgets(st) ==
    {b \in [1..Len(st.inputs) -> 0..(MaxHash + 1)] :
        \A i \in 1..Len(st.inputs) : b[i] <= MaxPolls(st.inputs[i])}

PollIntersect ==
    /\ op = "intersect"
    /\ Live
    /\ \E pick \in Picks(isect), budget \in Budgets(isect) :
         \E p \in {IntersectPoll(isect, budget, pick)} :
            /\ isect' = p.st
            /\ seen' = Seen(p)
            /\ Emit(p.res)
    /\ UNCHANGED <<repo, anc, take, op, args, polls, parserVars>>

NextIntersect == PollIntersect

SpecIntersect == InitIntersect /\ [][NextIntersect]_vars

-----------------------------------------------------------------------------
(* Polling IntersectNodeStream::new(inputs) over slow inputs, as the test
   slow_ready_intersect_nothing does: the caller counts its polls. An input is
   a NotReadyEmptyStream, or a stream of hashes that is not ready whenever its
   I/O has not completed. *)

SlowInputs(r) ==
    {[kind |-> "script", items |-> s, term |-> "End", poll_count |-> 0] :
        s \in OrderedSeqs(r)}
    \cup {[kind |-> "notready", items |-> <<>>, term |-> "End", poll_count |-> k] :
            k \in 0..MaxRepeats}

SlowArgs(r) ==
    {a \in UNION {[1..n -> SlowInputs(r)] : n \in 1..MaxInputs} : TotalItems(a) <= MaxItems}

InitSlow ==
    /\ repo = LadderRepo
    /\ op = "slow"
    /\ args \in SlowArgs(repo)
    /\ isect = IntersectNew([i \in 1..Len(args) |->
                  IF args[i].kind = "notready"
                  THEN NotReadyEmptyStream(args[i].poll_count)
                  ELSE ScriptStream(args[i].items, args[i].term)])
    /\ anc = NoAncestors
    /\ take = NoTake
    /\ out = <<>>
    /\ seen = <<>>
    /\ result = NoResult
    /\ polls = 0
    /\ ParserIdle

PollSlow ==
    /\ op = "slow"
    /\ Live
    /\ polls < MaxPollCount
    /\ \E pick \in Picks(isect), budget \in Budgets(isect) :
         \E p \in {IntersectPoll(isect, budget, pick)} :
            /\ isect' = p.st
            /\ seen' = Seen(p)
            /\ Emit(p.res)
    /\ polls' = polls + 1
    /\ UNCHANGED <<repo, anc, take, op, args, parserVars>>

NextSlow == PollSlow

SpecSlow == InitSlow /\ [][NextSlow]_vars

-----------------------------------------------------------------------------
(* Polling an IntersectNodeStream one of whose inputs is an
   IntersectNodeStream, as the test intersect_nesting does:
   Intersect(Intersect(A, B), C) *)

NestArgs(r) ==
    {a \in [1..3 -> {s \in Scripts(r) : s.term = "End"}] : TotalItems(a) <= MaxItems + MaxInputs}

\* IntersectNodeStream::new over the streams of a
Flat(a) == IntersectNew([i \in 1..Len(a) |-> ScriptStream(a[i].items, a[i].term)])

\* the first two streams of a boxed in an IntersectNodeStream of their own
Nested(a) ==
    IntersectNew(<<IntersectStream(Flat(SubSeq(a, 1, 2))),
                   ScriptStream(a[3].items, a[3].term)>>)

\* the hashes a stream yields when it is polled to its end and every input
\* answers at once
RECURSIVE RunIntersect(_, _)
RunIntersect(st, acc) ==
    With(IntersectPoll(st, InnerBudget(st, TRUE), Min(Hashes)), LAMBDA p :
      IF p.res.tag = "Item" THEN RunIntersect(p.st, Append(acc, p.res.hash)) ELSE acc)

InitNested ==
    /\ repo = LadderRepo
    /\ op = "nested"
    /\ args \in NestArgs(repo)
    /\ isect = Nested(args)
    /\ anc = NoAncestors
    /\ take = NoTake
    /\ out = <<>>
    /\ seen = <<>>
    /\ result = NoResult
    /\ polls = 0
    /\ ParserIdle

PollNested ==
    /\ op = "nested"
    /\ Live
    /\ \E pick \in Picks(isect), budget \in Budgets(isect) :
         \E p \in {IntersectPoll(isect, budget, pick)} :
            /\ isect' = p.st
            /\ seen' = Seen(p)
            /\ Emit(p.res)
    /\ UNCHANGED <<repo, anc, take, op, args, polls, parserVars>>

NextNested == PollNested

SpecNested == InitNested /\ [][NextNested]_vars

-----------------------------------------------------------------------------
(* The loop of IntersectNodeStream::poll, one turn at a time. An input that is
   polled in a turn is polled once, and the turn returns when one of them is
   not ready, so a turn chooses which inputs' I/O has completed. *)

\* a bug: the turn goes on to the match although an input is not ready
LoopTurnNoBarrier(st, ready, pick) ==
    With(poll_all_inputs(st.inputs,
                         [i \in 1..Len(st.inputs) |-> IF ready[i] THEN 1 ELSE 0], pick),
         LAMBDA p :
    With(DrainFlush([st EXCEPT !.inputs = p.inputs], pick), LAMBDA d :
      IF d.res.tag = "Item" THEN [st |-> d.st, res |-> d.res, polled |-> p.inputs]
      ELSE IF InError(d.st.inputs) # {}
      THEN [st |-> [d.st EXCEPT !.inputs = <<>>],
            res |-> d.st.inputs[Min(InError(d.st.inputs))].state,
            polled |-> p.inputs]
      ELSE With(Advance(d.st), LAMBDA a :
             [st |-> a,
              res |-> IF Finished(a) THEN ReadyNone
                      ELSE IF ~all_inputs_ready(d.st.inputs) THEN NotReady
                      ELSE NoResult,
              polled |-> p.inputs])))

\* One turn of the loop: polled is the inputs as poll_all_inputs left them, and
\* res is NoResult when the loop goes round again.
LoopTurn(st, ready, pick) ==
    With(poll_all_inputs(st.inputs,
                         [i \in 1..Len(st.inputs) |-> IF ready[i] THEN 1 ELSE 0], pick),
         LAMBDA p :
    With(DrainFlush([st EXCEPT !.inputs = p.inputs], pick), LAMBDA d :
      IF d.res.tag = "Item" THEN [st |-> d.st, res |-> d.res, polled |-> p.inputs]
      ELSE IF InError(d.st.inputs) # {}
      THEN [st |-> [d.st EXCEPT !.inputs = <<>>],
            res |-> d.st.inputs[Min(InError(d.st.inputs))].state,
            polled |-> p.inputs]
      ELSE IF ~all_inputs_ready(d.st.inputs)
      THEN [st |-> d.st, res |-> NotReady, polled |-> p.inputs]
      ELSE With(Advance(d.st), LAMBDA a :
             [st |-> a, res |-> IF Finished(a) THEN ReadyNone ELSE NoResult,
              polled |-> p.inputs])))

InitLoop ==
    /\ repo \in {LadderRepo, ForkRepo}
    /\ op = "loop"
    /\ args \in ScriptArgs(repo)
    /\ isect = IntersectNew([i \in 1..Len(args) |-> ScriptStream(args[i].items, args[i].term)])
    /\ anc = NoAncestors
    /\ take = NoTake
    /\ out = <<>>
    /\ seen = <<>>
    /\ result = NoResult
    /\ polls = 0
    /\ ParserIdle

\* a turn of the loop; seen is what the inputs' slots held after
\* poll_all_inputs, result is NoResult while poll has not returned
Turn ==
    /\ op = "loop"
    /\ Live
    /\ \E pick \in Picks(isect), ready \in [1..Len(isect.inputs) -> BOOLEAN] :
         \E t \in {LoopTurn(isect, ready, pick)} :
            /\ isect' = t.st
            /\ seen' = [i \in 1..Len(t.polled) |-> t.polled[i].state]
            /\ Emit(t.res)
    /\ UNCHANGED <<repo, anc, take, op, args, polls, parserVars>>

NextLoop == Turn

SpecLoop == InitLoop /\ [][NextLoop]_vars

\* The caller polls again and the inputs' I/O completes in the end: a turn
\* that changes the state is taken as long as there is one.
SpecLoopFair == SpecLoop /\ WF_vars(NextLoop)

-----------------------------------------------------------------------------
(* common_ancestors(nodes) and greatest_common_ancestor(nodes) *)

\* a bug: every stream is built from the first node
common_ancestors_first_node(r, nodes) ==
    IntersectNew([i \in 1..Len(nodes) |->
                    AncestorsStream(nodes[1], AncestorsNew(r, nodes[1]))])

common_ancestors(r, nodes) ==
    IntersectNew([i \in 1..Len(nodes) |->
                    AncestorsStream(nodes[i], AncestorsNew(r, nodes[i]))])

\* Take::poll of futures: stream.take(n)
TakePoll(t, st, budget, pick) ==
    IF t.remaining = 0
    THEN [take |-> t, st |-> st, res |-> ReadyNone, taken |-> <<>>]
    ELSE With(IntersectPoll(st, budget, pick), LAMBDA p :
           [take |-> [t EXCEPT !.remaining =
                        IF p.res.tag = "Item" THEN @ - 1
                        ELSE IF p.res.tag = "End" THEN 0 ELSE @],
            st |-> p.st, res |-> p.res, taken |-> p.taken])

\* a bug: take(2)
greatest_common_ancestor_take_2(r, nodes) ==
    [take |-> [on |-> TRUE, remaining |-> 2], st |-> common_ancestors(r, nodes)]

\* common_ancestors(..).take(1)
greatest_common_ancestor(r, nodes) ==
    [take |-> [on |-> TRUE, remaining |-> 1], st |-> common_ancestors(r, nodes)]

NodeLists == UNION {[1..n -> Hashes] : n \in 1..MaxNodes}

InitCommon ==
    /\ repo \in LongestPathRepos
    /\ op \in {"common_ancestors", "greatest_common_ancestor"}
    /\ args \in NodeLists
    /\ isect = IF op = "greatest_common_ancestor"
               THEN greatest_common_ancestor(repo, args).st
               ELSE common_ancestors(repo, args)
    /\ take = IF op = "greatest_common_ancestor"
              THEN greatest_common_ancestor(repo, args).take
              ELSE NoTake
    /\ anc = NoAncestors
    /\ out = <<>>
    /\ seen = <<>>
    /\ result = NoResult
    /\ polls = 0
    /\ ParserIdle

PollCommonAncestors ==
    /\ op = "common_ancestors"
    /\ Live
    /\ \E pick \in Picks(isect), budget \in Budgets(isect) :
         \E p \in {IntersectPoll(isect, budget, pick)} :
            /\ isect' = p.st
            /\ seen' = Seen(p)
            /\ Emit(p.res)
    /\ UNCHANGED <<repo, anc, take, op, args, polls, parserVars>>

PollGreatestCommonAncestor ==
    /\ op = "greatest_common_ancestor"
    /\ Live
    /\ \E pick \in Picks(isect), budget \in Budgets(isect) :
         \E p \in {TakePoll(take, isect, budget, pick)} :
            /\ isect' = p.st
            /\ take' = p.take
            /\ seen' = Seen(p)
            /\ Emit(p.res)
    /\ UNCHANGED <<repo, anc, op, args, polls, parserVars>>

NextCommon == PollCommonAncestors \/ PollGreatestCommonAncestor

SpecCommon == InitCommon /\ [][NextCommon]_vars

-----------------------------------------------------------------------------
(* Bytes *)

Lower == {"a", "b", "c", "d", "e", "f", "g", "h", "i", "j", "k", "l", "m", "n", "o", "p", "q", "r", "s", "t", "u", "v", "w", "x", "y", "z"}
Upper == {"A", "B", "C", "D", "E", "F", "G", "H", "I", "J", "K", "L", "M", "N", "O", "P", "Q", "R", "S", "T", "U", "V", "W", "X", "Y", "Z"}
Digits == {"0", "1", "2", "3", "4", "5", "6", "7", "8", "9"}
HexDigits == Digits \cup {"a", "b", "c", "d", "e", "f"}
\* the bytes the model sends: letters, digits and the bytes the protocol
\* gives a meaning to
Bytes == Lower \cup Upper \cup Digits \cup {"_", " ", "\n", "*", "-", ",", ";", "=", ":", "!"}

DigitValue == "0" :> 0 @@ "1" :> 1 @@ "2" :> 2 @@ "3" :> 3 @@ "4" :> 4 @@ "5" :> 5 @@ "6" :> 6 @@ "7" :> 7 @@ "8" :> 8 @@ "9" :> 9


-----------------------------------------------------------------------------
(* The request parser of hgproto/src/sshproto/request.rs. A byte string is a
   sequence of one-character strings. The combinators of the nom library
   (tag!, take!, alt!, do_parse!, complete!, separated_list!, ...) are
   modelled by what they return: Done(rest, value), Incomplete or Error. *)

Take(s, n) == SubSeq(s, 1, n)
Drop(s, n) == SubSeq(s, n + 1, Len(s))

\* IResult
Done(rest, val) == [tag |-> "Done", rest |-> rest, val |-> val]
Incomplete == [tag |-> "Incomplete", rest |-> <<>>, val |-> <<>>]
Error(kind) == [tag |-> "Error", rest |-> <<>>, val |-> kind]

\* do_parse!(a >> b): b runs on what a left, if a is Done
Then(r, F(_)) == With(r, LAMBDA x : IF x.tag = "Done" THEN F(x) ELSE x)

\* alt!(a | b): the first alternative that is not an Error decides
Alt(a, b) ==
    With(a, LAMBDA x :
      IF x.tag # "Error" THEN x
      ELSE With(b, LAMBDA y : IF y.tag # "Error" THEN y ELSE Error("Alt")))

\* complete!(a)
Complete(r) == With(r, LAMBDA x : IF x.tag = "Incomplete" THEN Error("Complete") ELSE x)

\* the number of leading bytes of s that are in S
Span(s, S) == Min({i \in 1..Len(s) : s[i] \notin S} \cup {Len(s) + 1}) - 1

\* tag!(t)
Tag(input, t) ==
    With(Min({Len(input), Len(t)}), LAMBDA m :
      IF Take(input, m) # Take(t, m) THEN Error("Tag")
      ELSE IF m < Len(t) THEN Incomplete
      ELSE Done(Drop(input, m), t))

\* take!(n)
TakeBytes(input, n) ==
    IF Len(input) < n THEN Incomplete ELSE Done(Drop(input, n), Take(input, n))

\* take_while!(pred), pred given as the set of bytes it holds for
TakeWhile(input, S) ==
    With(Span(input, S), LAMBDA n : Done(Drop(input, n), Take(input, n)))

\* take_until_and_consume1!(c): the bytes before the first c, and c consumed.
\* Whether a c at the very start is an Error or yields the empty byte string
\* depends on the version of the library the crate is built with: nom.until1
TakeUntilAndConsume1(input, c) ==
    IF Len(input) < 2 THEN Incomplete
    ELSE With(Span(input, Bytes \ {c}), LAMBDA n :
           IF n = Len(input) THEN Error("TakeUntilAndConsume")
           ELSE IF n = 0 /\ nom.until1 THEN Error("TakeUntilAndConsume")
           ELSE Done(Drop(input, n + 1), Take(input, n)))

\* fn digit(input, is_digit)
digit(input) ==
    With(Span(input, Digits), LAMBDA n :
      IF n = Len(input) THEN Incomplete
      ELSE IF n = 0 THEN Error("Digit")
      ELSE Done(Drop(input, n), Take(input, n)))

\* FromStr::from_str of a run of digits (the model's numbers are far below
\* usize::MAX)
RECURSIVE DecimalValue(_)
DecimalValue(ds) ==
    IF ds = <<>> THEN 0
    ELSE 10 * DecimalValue(Take(ds, Len(ds) - 1)) + DigitValue[ds[Len(ds)]]

integer(input) == Then(digit(input), LAMBDA d : Done(d.rest, DecimalValue(d.val)))

ident(input) ==
    IF input = <<>> THEN Incomplete
    ELSE IF input[1] \notin Lower \cup Upper \cup {"_"} THEN Error("AlphaNumeric")
    ELSE With(Span(input, Lower \cup Upper \cup Digits \cup {"_"}), LAMBDA n :
           IF n = Len(input) THEN Incomplete
           ELSE Done(Drop(input, n), Take(input, n)))

ident_complete(input) ==
    With(ident(input), LAMBDA r : IF r.tag = "Incomplete" THEN Done(<<>>, input) ELSE r)

\* HashMap<Vec<u8>, Vec<u8>>: a function from keys to values
EmptyParams == <<>>
\* a bug: a key that is in the map keeps its value
InsertAll_keeps_first(ret, val) == ret @@ val

\* ret.insert(k, v) for every (k, v) of val
InsertAll(ret, val) == val @@ ret

param_kv(input) ==
    Then(ident(input), LAMBDA key :
    Then(Tag(key.rest, <<" ">>), LAMBDA sp :
    Then(integer(sp.rest), LAMBDA len :
    Then(Tag(len.rest, <<"\n">>), LAMBDA nl :
    Then(TakeBytes(nl.rest, len.val), LAMBDA val :
      Done(val.rest, key.val :> val.val))))))

RECURSIVE params(_, _)
RECURSIVE ParamsLoop(_, _, _, _)

param_star(input) ==
    Then(Tag(input, <<"*", " ">>), LAMBDA star :
    Then(integer(star.rest), LAMBDA count :
    Then(Tag(count.rest, <<"\n">>), LAMBDA nl :
      params(nl.rest, count.val))))

\* a bug: a star counts for as many slots as it has entries
ParamsLoop_star_counts_entries(inp, have, count, ret) ==
    IF have >= count THEN Done(inp, ret)
    ELSE With(Alt(param_star(inp), param_kv(inp)), LAMBDA res :
           IF res.tag = "Done"
           THEN ParamsLoop(res.rest,
                           have + (IF param_star(inp).tag = "Done"
                                   THEN Cardinality(DOMAIN res.val) ELSE 1),
                           count, InsertAll(ret, res.val))
           ELSE res)

\* the while loop of params: a star and a named parameter both add one to have
ParamsLoop(inp, have, count, ret) ==
    IF have >= count THEN Done(inp, ret)
    ELSE With(Alt(param_star(inp), param_kv(inp)), LAMBDA res :
           IF res.tag = "Done"
           THEN ParamsLoop(res.rest, have + 1, count, InsertAll(ret, res.val))
           ELSE res)

params(inp, count) == ParamsLoop(inp, 0, count, EmptyParams)

\* batch::unescape: ":c" is ":", ":o" is ",", ":s" is ";", ":e" is "=";
\* any other byte after ":" (or none) is an error
Unescaped == ("c" :> ":") @@ ("o" :> ",") @@ ("s" :> ";") @@ ("e" :> "=")

RECURSIVE unescape(_)
unescape(s) ==
    IF s = <<>> THEN [ok |-> TRUE, val |-> <<>>]
    ELSE IF s[1] # ":"
    THEN With(unescape(Drop(s, 1)), LAMBDA r :
           IF r.ok THEN [ok |-> TRUE, val |-> <<s[1]>> \o r.val] ELSE r)
    ELSE IF Len(s) < 2 \/ s[2] \notin DOMAIN Unescaped
    THEN [ok |-> FALSE, val |-> <<>>]
    ELSE With(unescape(Drop(s, 2)), LAMBDA r :
           IF r.ok THEN [ok |-> TRUE, val |-> <<Unescaped[s[2]]>> \o r.val] ELSE r)

notcomma == Bytes \ {","}

\* a bug: the key and the value are handed on as they are on the wire
batch_param_escaped_raw(input) ==
    Then(TakeUntilAndConsume1(input, "="), LAMBDA key :
    Then(TakeWhile(key.rest, notcomma), LAMBDA val :
      Done(val.rest, <<key.val, val.val>>)))

batch_param_escaped(input) ==
    Then(TakeUntilAndConsume1(input, "="), LAMBDA key :
    Then(TakeWhile(key.rest, notcomma), LAMBDA val :
      With(unescape(key.val), LAMBDA k :
      With(unescape(val.val), LAMBDA v :
        IF k.ok /\ v.ok THEN Done(val.rest, <<k.val, v.val>>)
        ELSE Error("MapRes")))))

\* take!(40) and str::parse: 40 hex digits
HashLen == 40

nodehash(input) ==
    Then(TakeBytes(input, HashLen), LAMBDA v :
      IF \A i \in 1..HashLen : v.val[i] \in HexDigits THEN v ELSE Error("MapRes"))

pair(input) ==
    Then(nodehash(input), LAMBDA a :
    Then(Tag(a.rest, <<"-">>), LAMBDA dash :
    Then(nodehash(dash.rest), LAMBDA b :
      Done(b.rest, <<a.val, b.val>>))))

notsemi == Bytes \ {";"}

cmd(input) ==
    Then(TakeUntilAndConsume1(input, " "), LAMBDA c :
    Then(TakeWhile(c.rest, notsemi), LAMBDA args_ :
      Done(args_.rest, <<c.val, args_.val>>)))

\* the element parsers handed to separated_list!
Element(parser, input) ==
    CASE parser = "nodehash" -> nodehash(input)
      [] parser = "pair" -> pair(input)
      [] parser = "cmd" -> cmd(input)
      [] parser = "batch_param_escaped" -> Complete(batch_param_escaped(input))

\* separated_list!(complete!(tag!(sep)), element): after the first element,
\* the list ends before a separator that is missing or that no element follows
RECURSIVE SeparatedLoop(_, _, _, _)
SeparatedLoop(input, sep, parser, res) ==
    With(Complete(Tag(input, sep)), LAMBDA s :
      IF s.tag = "Error" THEN Done(input, res)
      ELSE With(Element(parser, s.rest), LAMBDA e :
             IF e.tag = "Error" THEN Done(input, res)
             ELSE IF e.tag = "Incomplete" THEN Incomplete
             ELSE IF Len(e.rest) = Len(s.rest) THEN Done(input, res)
             ELSE SeparatedLoop(e.rest, sep, parser, Append(res, e.val))))

SeparatedList(input, sep, parser) ==
    With(Element(parser, input), LAMBDA e :
      IF e.tag = "Error" THEN Done(input, <<>>)
      ELSE IF e.tag = "Incomplete" THEN Incomplete
      ELSE IF Len(e.rest) = Len(input) THEN Error("SeparatedList")
      ELSE SeparatedLoop(e.rest, sep, parser, <<e.val>>))

\* v.into_iter().collect() into a HashMap: a later pair replaces an earlier
\* one with the same key
RECURSIVE Collect(_)
Collect(pairs) ==
    IF pairs = <<>> THEN EmptyParams
    ELSE InsertAll(Collect(Take(pairs, Len(pairs) - 1)),
                   pairs[Len(pairs)][1] :> pairs[Len(pairs)][2])

batch_params(input, count) ==
    Then(SeparatedList(input, <<",">>, "batch_param_escaped"), LAMBDA v :
      Done(v.rest, Collect(v.val)))

pairlist(input) == SeparatedList(input, <<" ">>, "pair")

hashlist(input) == SeparatedList(input, <<" ">>, "nodehash")

\* input.split(|c| *c == b',')
RECURSIVE Split(_, _)
Split(input, c) ==
    With(Span(input, Bytes \ {c}), LAMBDA n :
      IF n = Len(input) THEN <<input>>
      ELSE <<Take(input, n)>> \o Split(Drop(input, n + 1), c))

commavalues(input) ==
    IF Len(input) = 0 THEN Done(<<>>, <<>>) ELSE Done(<<>>, Split(input, ","))

cmdlist(input) == SeparatedList(input, <<";">>, "cmd")

\* eof!()
match_eof(input) == IF input = <<>> THEN Done(input, input) ELSE Error("Eof")

ident_string(inp) == ident_complete(inp)

\* the typed sub-parsers of the fields
FieldParser(parser, v) ==
    CASE parser = "cmdlist" -> cmdlist(v)
      [] parser = "pairlist" -> pairlist(v)
      [] parser = "hashlist" -> hashlist(v)
      [] parser = "nodehash" -> nodehash(v)
      [] parser = "commavalues" -> commavalues(v)
      [] parser = "ident_string" -> ident_string(v)
      [] parser = "ident_complete" -> ident_complete(v)

\* Result<T>
Ok(v) == [ok |-> TRUE, val |-> v, err |-> "", key |-> ""]
Bail(err, key) == [ok |-> FALSE, val |-> <<>>, err |-> err, key |-> key]

\* a bug: what the sub-parser leaves over is not looked at
ParseValue_ignores_rest(v, key, parser) ==
    With(FieldParser(parser, v), LAMBDA r :
      IF r.tag = "Done" THEN Ok(r.val)
      ELSE IF r.tag = "Incomplete" THEN Bail("ParamIncomplete", key)
      ELSE Bail("ParamFailed", key))

\* a bug: a sub-parser that wants more bytes is taken to have found nothing
ParseValue_incomplete_is_empty(v, key, parser) ==
    With(FieldParser(parser, v), LAMBDA r :
      IF r.tag = "Done"
      THEN IF match_eof(r.rest).tag = "Done" THEN Ok(r.val)
           ELSE Bail("UnconsumedParamBytes", key)
      ELSE IF r.tag = "Incomplete" THEN Ok(<<>>)
      ELSE Bail("ParamFailed", key))

\* what parseval and parseval_default do with a value that is present
ParseValue(v, key, parser) ==
    With(FieldParser(parser, v), LAMBDA r :
      IF r.tag = "Done"
      THEN IF match_eof(r.rest).tag = "Done" THEN Ok(r.val)
           ELSE Bail("UnconsumedParamBytes", key)
      ELSE IF r.tag = "Incomplete" THEN Bail("ParamIncomplete", key)
      ELSE Bail("ParamFailed", key))

\* a bug: a field that is missing gets the default value
parseval_missing_is_default(kv, field, parser) ==
    IF field.bytes \notin DOMAIN kv THEN Ok(<<>>)
    ELSE ParseValue(kv[field.bytes], field.key, parser)

parseval(kv, field, parser) ==
    IF field.bytes \notin DOMAIN kv THEN Bail("MissingParam", field.key)
    ELSE ParseValue(kv[field.bytes], field.key, parser)

\* a bug: a field that is missing is an error
parseval_default_missing_is_error(kv, field, parser) ==
    IF field.bytes \notin DOMAIN kv THEN Bail("MissingParam", field.key)
    ELSE ParseValue(kv[field.bytes], field.key, parser)

parseval_default(kv, field, parser) ==
    IF field.bytes \notin DOMAIN kv THEN Ok(<<>>)
    ELSE ParseValue(kv[field.bytes], field.key, parser)

\* a field of a command: its name, the bytes of its key and its sub-parser
Field(key, bytes, parser) == [key |-> key, bytes |-> bytes, parser |-> parser]

\* The alternatives of parse_common, in their order: the command's name on
\* the wire, the Request variant, the number of parameters handed to
\* parse_command, how the request is built, and the fields.
Commands == <<
  [name |-> <<"b", "a", "t", "c", "h">>,
   request |-> "Batch", nargs |-> 2, kind |-> "common",
   fields |-> <<
        Field("cmds", <<"c", "m", "d", "s">>, "cmdlist")>>],
  [name |-> <<"b", "e", "t", "w", "e", "e", "n">>,
   request |-> "Between", nargs |-> 1, kind |-> "common",
   fields |-> <<
        Field("pairs", <<"p", "a", "i", "r", "s">>, "pairlist")>>],
  [name |-> <<"b", "r", "a", "n", "c", "h", "m", "a", "p">>,
   request |-> "Branchmap", nargs |-> 0, kind |-> "common",
   fields |-> <<>>],
  [name |-> <<"b", "r", "a", "n", "c", "h", "e", "s">>,
   request |-> "Branches", nargs |-> 1, kind |-> "common",
   fields |-> <<
        Field("nodes", <<"n", "o", "d", "e", "s">>, "hashlist")>>],
  [name |-> <<"c", "l", "o", "n", "e", "b", "u", "n", "d", "l", "e", "s">>,
   request |-> "Clonebundles", nargs |-> 0, kind |-> "common",
   fields |-> <<>>],
  [name |-> <<"c", "a", "p", "a", "b", "i", "l", "i", "t", "i", "e", "s">>,
   request |-> "Capabilities", nargs |-> 0, kind |-> "common",
   fields |-> <<>>],
  [name |-> <<"c", "h", "a", "n", "g", "e", "g", "r", "o", "u", "p">>,
   request |-> "Changegroup", nargs |-> 1, kind |-> "common",
   fields |-> <<
        Field("roots", <<"r", "o", "o", "t", "s">>, "hashlist")>>],
  [name |-> <<"c", "h", "a", "n", "g", "e", "g", "r", "o", "u", "p", "s", "u", "b", "s", "e", "t">>,
   request |-> "Changegroupsubset", nargs |-> 2, kind |-> "common",
   fields |-> <<
        Field("heads", <<"h", "e", "a", "d", "s">>, "hashlist"),
        Field("bases", <<"b", "a", "s", "e", "s">>, "hashlist")>>],
  [name |-> <<"d", "e", "b", "u", "g", "w", "i", "r", "e", "a", "r", "g", "s">>,
   request |-> "Debugwireargs", nargs |-> 3, kind |-> "debugwireargs",
   fields |-> <<
        Field("one", <<"o", "n", "e">>, "ident_complete"),
        Field("two", <<"t", "w", "o">>, "ident_complete")>>],
  [name |-> <<"g", "e", "t", "b", "u", "n", "d", "l", "e">>,
   request |-> "Getbundle", nargs |-> 1, kind |-> "getbundle",
   fields |-> <<
        Field("heads", <<"h", "e", "a", "d", "s">>, "hashlist"),
        Field("common", <<"c", "o", "m", "m", "o", "n">>, "hashlist"),
        Field("bundlecaps", <<"b", "u", "n", "d", "l", "e", "c", "a", "p", "s">>, "commavalues"),
        Field("listkeys", <<"l", "i", "s", "t", "k", "e", "y", "s">>, "commavalues")>>],
  [name |-> <<"h", "e", "a", "d", "s">>,
   request |-> "Heads", nargs |-> 0, kind |-> "common",
   fields |-> <<>>],
  [name |-> <<"h", "e", "l", "l", "o">>,
   request |-> "Hello", nargs |-> 0, kind |-> "common",
   fields |-> <<>>],
  [name |-> <<"l", "i", "s", "t", "k", "e", "y", "s">>,
   request |-> "Listkeys", nargs |-> 1, kind |-> "common",
   fields |-> <<
        Field("namespace", <<"n", "a", "m", "e", "s", "p", "a", "c", "e">>, "ident_string")>>],
  [name |-> <<"l", "o", "o", "k", "u", "p">>,
   request |-> "Lookup", nargs |-> 1, kind |-> "common",
   fields |-> <<
        Field("key", <<"k", "e", "y">>, "ident_string")>>],
  [name |-> <<"k", "n", "o", "w", "n">>,
   request |-> "Known", nargs |-> 2, kind |-> "common",
   fields |-> <<
        Field("nodes", <<"n", "o", "d", "e", "s">>, "hashlist")>>],
  [name |-> <<"p", "u", "s", "h", "k", "e", "y">>,
   request |-> "Pushkey", nargs |-> 4, kind |-> "common",
   fields |-> <<
        Field("namespace", <<"n", "a", "m", "e", "s", "p", "a", "c", "e">>, "ident_string"),
        Field("key", <<"k", "e", "y">>, "ident_string"),
        Field("old", <<"o", "l", "d">>, "nodehash"),
        Field("new", <<"n", "e", "w">>, "nodehash")>>],
  [name |-> <<"s", "t", "r", "e", "a", "m", "o", "u", "t">>,
   request |-> "Streamout", nargs |-> 0, kind |-> "common",
   fields |-> <<>>],
  [name |-> <<"u", "n", "b", "u", "n", "d", "l", "e">>,
   request |-> "Unbundle", nargs |-> 1, kind |-> "common",
   fields |-> <<
        Field("heads", <<"h", "e", "a", "d", "s">>, "hashlist")>>] >>

\* Request
Request(name, fields, all_args) == [name |-> name, fields |-> fields, all_args |-> all_args]

\* the closure handed to parse_command: the fields are parsed in the order
\* they are written, and the first failure is the closure's error
RECURSIVE ParseFields(_, _, _, _)
ParseFields(entry, kv, i, acc) ==
    IF i > Len(entry.fields) THEN Ok(acc)
    ELSE With(IF entry.kind = "getbundle"
              THEN parseval_default(kv, entry.fields[i], entry.fields[i].parser)
              ELSE parseval(kv, entry.fields[i], entry.fields[i].parser),
              LAMBDA r :
           IF r.ok
           THEN ParseFields(entry, kv, i + 1, (entry.fields[i].key :> r.val) @@ acc)
           ELSE r)

\* a bug: a parameter that is not a field of the command is an error
BuildRequest_rejects_unknown_keys(entry, kv) ==
    IF \E k \in DOMAIN kv : \A f \in 1..Len(entry.fields) : entry.fields[f].bytes # k
    THEN Bail("UnknownParam", "")
    ELSE With(ParseFields(entry, kv, 1, <<>>), LAMBDA f :
           IF f.ok
           THEN Ok(Request(entry.request, f.val,
                           IF entry.kind = "debugwireargs" THEN kv ELSE EmptyParams))
           ELSE f)

BuildRequest(entry, kv) ==
    With(ParseFields(entry, kv, 1, <<>>), LAMBDA f :
      IF f.ok
      THEN Ok(Request(entry.request, f.val,
                      IF entry.kind = "debugwireargs" THEN kv ELSE EmptyParams))
      ELSE f)

\* parse_params: params for parse, batch_params for parse_batch
ParseParams(dialect, inp, nargs) ==
    IF dialect = "batch" THEN batch_params(inp, nargs) ELSE params(inp, nargs)

parse_command(inp, entry, dialect) ==
    Then(Tag(inp, entry.name), LAMBDA name :
    Then(Tag(name.rest, <<"\n">>), LAMBDA nl :
    Then(ParseParams(dialect, nl.rest, entry.nargs), LAMBDA p :
      With(BuildRequest(entry, p.val), LAMBDA t :
        IF t.ok THEN Done(p.rest, t.val) ELSE Error("Custom")))))

\* the alt! of parse_common over the commands, from the i-th on
RECURSIVE AltCommands(_, _, _)
AltCommands(inp, dialect, i) ==
    IF i > Len(Commands) THEN Error("Alt")
    ELSE With(parse_command(inp, Commands[i], dialect), LAMBDA r :
           IF r.tag # "Error" THEN r ELSE AltCommands(inp, dialect, i + 1))

\* Result<Option<Request>>
ReplySome(request) == [tag |-> "Some", request |-> request, buffer |-> <<>>, cause |-> ""]
ReplyNone == [tag |-> "None", request |-> <<>>, buffer |-> <<>>, cause |-> ""]
\* Error::with_chain(err, ErrorKind::CommandParse(buf.to_vec()))
ReplyErr(buffer, cause) == [tag |-> "Err", request |-> <<>>, buffer |-> buffer, cause |-> cause]

\* a bug: a successful call empties the buffer
parse_common_takes_everything(b, dialect) ==
    With(AltCommands(b, dialect, 1), LAMBDA parse_res :
      IF parse_res.tag = "Done"
      THEN [buf |-> <<>>, reply |-> ReplySome(parse_res.val)]
      ELSE IF parse_res.tag = "Incomplete"
      THEN [buf |-> b, reply |-> ReplyNone]
      ELSE [buf |-> b, reply |-> ReplyErr(b, parse_res.val)])

\* a bug: a successful call leaves the buffer as it was
parse_common_keeps_buffer(b, dialect) ==
    With(AltCommands(b, dialect, 1), LAMBDA parse_res :
      IF parse_res.tag = "Done"
      THEN [buf |-> b, reply |-> ReplySome(parse_res.val)]
      ELSE IF parse_res.tag = "Incomplete"
      THEN [buf |-> b, reply |-> ReplyNone]
      ELSE [buf |-> b, reply |-> ReplyErr(b, parse_res.val)])

\* a bug: a failed call throws the buffer away
parse_common_error_clears_buffer(b, dialect) ==
    With(AltCommands(b, dialect, 1), LAMBDA parse_res :
      IF parse_res.tag = "Done"
      THEN [buf |-> Drop(b, Len(b) - Len(parse_res.rest)),
            reply |-> ReplySome(parse_res.val)]
      ELSE IF parse_res.tag = "Incomplete"
      THEN [buf |-> b, reply |-> ReplyNone]
      ELSE [buf |-> <<>>, reply |-> ReplyErr(b, parse_res.val)])

\* a bug: Incomplete is reported as an error
parse_common_incomplete_is_error(b, dialect) ==
    With(AltCommands(b, dialect, 1), LAMBDA parse_res :
      IF parse_res.tag = "Done"
      THEN [buf |-> Drop(b, Len(b) - Len(parse_res.rest)),
            reply |-> ReplySome(parse_res.val)]
      ELSE [buf |-> b, reply |-> ReplyErr(b, parse_res.val)])

\* a bug: an error of the alt! is taken for a lack of bytes
parse_common_error_is_none(b, dialect) ==
    With(AltCommands(b, dialect, 1), LAMBDA parse_res :
      IF parse_res.tag = "Done"
      THEN [buf |-> Drop(b, Len(b) - Len(parse_res.rest)),
            reply |-> ReplySome(parse_res.val)]
      ELSE [buf |-> b, reply |-> ReplyNone])

\* parse_common: the buffer as the call leaves it, and what the call returns
parse_common(b, dialect) ==
    With(AltCommands(b, dialect, 1), LAMBDA parse_res :
      IF parse_res.tag = "Done"
      THEN [buf |-> Drop(b, Len(b) - Len(parse_res.rest)),
            reply |-> ReplySome(parse_res.val)]
      ELSE IF parse_res.tag = "Incomplete"
      THEN [buf |-> b, reply |-> ReplyNone]
      ELSE [buf |-> b, reply |-> ReplyErr(b, parse_res.val)])

parse(b) == parse_common(b, "normal")

parse_batch(b) == parse_common(b, "batch")

-----------------------------------------------------------------------------
(* A session with the request parser: the client's bytes reach the buffer
   one at a time, and parse (or parse_batch) is called on the buffer, as the
   tests test_parse and test_batch_parse_heads do. *)

\* a list field of a request holds 1..MaxList elements
MaxList == 2
\* the bytes that follow a command in the buffer are at most MaxSuffix
MaxSuffix == 1
\* a star parameter expands to at most MaxStar entries
MaxStar == 2

\* what the client writes
DigitChar == <<"0", "1", "2", "3", "4", "5", "6", "7", "8", "9">>

RECURSIVE Decimal(_)
Decimal(n) ==
    IF n < 10 THEN <<DigitChar[n + 1]>>
    ELSE Decimal(n \div 10) \o <<DigitChar[(n % 10) + 1]>>

\* ident <bytelen>\n<bytelen bytes>
Named(key, val) == key \o <<" ">> \o Decimal(Len(val)) \o <<"\n">> \o val

\* "* <count>\n" and the entries it expands to
RECURSIVE Concat(_)
Concat(list) == IF list = <<>> THEN <<>> ELSE Head(list) \o Concat(Tail(list))

Star(entries) == <<"*", " ">> \o Decimal(Len(entries)) \o <<"\n">> \o Concat(entries)

RECURSIVE Join(_, _)
Join(list, sep) ==
    IF list = <<>> THEN <<>>
    ELSE IF Len(list) = 1 THEN list[1]
    ELSE list[1] \o sep \o Join(Tail(list), sep)

\* node hashes on the wire
NodeHash(c) == [i \in 1..HashLen |-> c]
NodeHashes == {NodeHash("1"), NodeHash("a")}
HashLists == UNION {[1..n -> NodeHashes] : n \in 1..MaxList}
Pairs == {<<NodeHash("1"), NodeHash("a")>>}
PairLists == UNION {[1..n -> Pairs] : n \in 1..MaxList}
WirePair(p) == p[1] \o <<"-">> \o p[2]

\* the alternative of parse_common for a Request variant
CommandOf(request) ==
    Commands[CHOOSE i \in 1..Len(Commands) : Commands[i].request = request]
FieldOf(request, key) ==
    With(CommandOf(request).fields, LAMBDA fs :
      fs[CHOOSE i \in 1..Len(fs) : fs[i].key = key])

\* a session: the bytes of one command, the request it stands for, and the
\* bytes that follow it
Session(class, input, expect) ==
    [class |-> class, input |-> input, expect |-> expect, suffix |-> <<>>]

Line(request) == CommandOf(request).name \o <<"\n">>
Key(request, key) == FieldOf(request, key).bytes

\* an entry the commands do not look at
Filler(i) == Named(<<"x", DigitChar[i + 1]>>, <<"y">>)
Fillers(n) == [i \in 1..n |-> Filler(i)]

\* commands without parameters
NoParamSessions ==
    {Session("valid", Line(c), Request(c, <<>>, EmptyParams)) :
        c \in {"Branchmap", "Clonebundles", "Capabilities", "Heads", "Hello", "Streamout"}}

\* commands with one list of hashes
HashListSessions ==
    {Session("valid",
             Line(c[1]) \o Named(Key(c[1], c[2]), Join(hs, <<" ">>)),
             Request(c[1], c[2] :> hs, EmptyParams)) :
        c \in {<<"Branches", "nodes">>, <<"Changegroup", "roots">>, <<"Unbundle", "heads">>},
        hs \in HashLists}

BetweenSessions ==
    {Session("valid",
             Line("Between") \o Named(Key("Between", "pairs"),
                                      Join([i \in 1..Len(ps) |-> WirePair(ps[i])], <<" ">>)),
             Request("Between", "pairs" :> ps, EmptyParams)) :
        ps \in PairLists}

\* the two parameters of changegroupsubset, in either order
ChangegroupsubsetSessions ==
    {Session("valid",
             Line("Changegroupsubset")
               \o (IF first = "heads"
                   THEN Named(Key("Changegroupsubset", "heads"), h)
                          \o Named(Key("Changegroupsubset", "bases"), b)
                   ELSE Named(Key("Changegroupsubset", "bases"), b)
                          \o Named(Key("Changegroupsubset", "heads"), h)),
             Request("Changegroupsubset", ("heads" :> <<h>>) @@ ("bases" :> <<b>>), EmptyParams)) :
        h \in NodeHashes, b \in NodeHashes, first \in {"heads", "bases"}}

\* known: a star that expands to 0..MaxStar entries, then nodes; nodes inside
\* the star, then another entry; a star inside the star
KnownSessions ==
    {Session("valid",
             Line("Known") \o Star(Fillers(n)) \o Named(Key("Known", "nodes"), h),
             Request("Known", "nodes" :> <<h>>, EmptyParams)) :
        h \in NodeHashes, n \in 0..MaxStar}
    \cup
    {Session("valid",
             Line("Known") \o Star(<<Named(Key("Known", "nodes"), h)>>) \o Filler(1),
             Request("Known", "nodes" :> <<h>>, EmptyParams)) :
        h \in NodeHashes}
    \cup
    {Session("valid",
             Line("Known") \o Star(<<Star(Fillers(n))>>) \o Named(Key("Known", "nodes"), h),
             Request("Known", "nodes" :> <<h>>, EmptyParams)) :
        h \in NodeHashes, n \in 0..MaxStar}

\* batch: cmds is a list of "command arguments" separated by ";"
BatchCmds ==
    { << <<<<"h", "e", "l", "l", "o">>, <<>> >> >>,
      << <<<<"h", "e", "a", "d", "s">>, <<>> >>, <<<<"l", "o", "o", "k", "u", "p">>, <<"k", "e", "y", "=", "f", "o", "o">>>> >> }

BatchSessions ==
    {Session("valid",
             Line("Batch") \o Star(<<>>)
               \o Named(Key("Batch", "cmds"),
                        Join([i \in 1..Len(cs) |-> cs[i][1] \o <<" ">> \o cs[i][2]], <<";">>)),
             Request("Batch", "cmds" :> cs, EmptyParams)) :
        cs \in BatchCmds}

Idents == {<<"b", "o", "o", "k", "m", "a", "r", "k", "s">>, <<"O", "N", "E">>, <<"k", "_", "1">>}

DebugwireargsSessions ==
    {Session("valid",
             Line("Debugwireargs") \o Star(Fillers(n))
               \o Named(Key("Debugwireargs", "one"), a)
               \o Named(Key("Debugwireargs", "two"), b),
             Request("Debugwireargs", ("one" :> a) @@ ("two" :> b),
                     (Key("Debugwireargs", "one") :> a) @@ (Key("Debugwireargs", "two") :> b)
                       @@ [k \in {<<"x", DigitChar[i + 1]>> : i \in 1..n} |-> <<"y">>])) :
        a \in {<<"O", "N", "E">>}, b \in {<<"O", "N", "E">>, <<"k", "_", "1">>}, n \in 0..MaxStar}

\* debugwireargs reads three slots; the ways to fill them with stars: a star
\* between the fields, a star in a star, a field in a star, stars only
StarLayouts(one, two) ==
    { <<one, Star(Fillers(1)), two>>,
      <<Star(<<Star(<<Filler(1)>>), Filler(2)>>), one, two>>,
      <<Star(<<one, Filler(1)>>), two, Star(<<>>)>>,
      <<Star(<<>>), Star(<<one, two>>), Star(<<Star(<<>>)>>)>>,
      <<Star(<<Star(<<Star(<<one>>)>>)>>), Star(<<Filler(1), Filler(2)>>), two>> }

\* the keys x1, x2 of the fillers that are in the input
FillerKeys(input) ==
    {k \in {<<"x", DigitChar[i + 1]>> : i \in 1..MaxStar} :
       \E j \in 1..Len(input) - 1 : <<input[j], input[j + 1]>> = k}

StarSessions ==
    {Session("valid",
             Line("Debugwireargs") \o Concat(slots),
             Request("Debugwireargs",
                     ("one" :> <<"O", "N", "E">>) @@ ("two" :> <<"k", "_", "1">>),
                     (Key("Debugwireargs", "one") :> <<"O", "N", "E">>)
                       @@ (Key("Debugwireargs", "two") :> <<"k", "_", "1">>)
                       @@ [k \in FillerKeys(Concat(slots)) |-> <<"y">>])) :
        slots \in StarLayouts(Named(Key("Debugwireargs", "one"), <<"O", "N", "E">>),
                              Named(Key("Debugwireargs", "two"), <<"k", "_", "1">>))}

\* debugwireargs with a key written twice: both at top level, in a star and
\* after it, before a star and in it, both in one star; the filler x1 twice
DuplicateLayouts(first, last, two) ==
    { <<first, last, two>>,
      <<Star(<<first>>), last, two>>,
      <<first, Star(<<last>>), two>>,
      <<Star(<<first, last>>), two, Star(<<>>)>>,
      <<Star(<<Star(<<first>>), last>>), two, Star(<<>>)>> }

DuplicateSessions ==
    {Session("valid",
             Line("Debugwireargs") \o Concat(slots),
             Request("Debugwireargs",
                     ("one" :> <<"k", "_", "1">>) @@ ("two" :> <<"O", "N", "E">>),
                     (Key("Debugwireargs", "one") :> <<"k", "_", "1">>)
                       @@ (Key("Debugwireargs", "two") :> <<"O", "N", "E">>))) :
        slots \in DuplicateLayouts(Named(Key("Debugwireargs", "one"), <<"O", "N", "E">>),
                                   Named(Key("Debugwireargs", "one"), <<"k", "_", "1">>),
                                   Named(Key("Debugwireargs", "two"), <<"O", "N", "E">>))}
      \cup {Session("valid",
                    Line("Debugwireargs")
                      \o Star(<<Named(<<"x", "1">>, <<"y">>), Named(<<"x", "1">>, <<"z">>)>>)
                      \o Named(Key("Debugwireargs", "one"), <<"k", "_", "1">>)
                      \o Named(Key("Debugwireargs", "two"), <<"O", "N", "E">>),
                    Request("Debugwireargs",
                            ("one" :> <<"k", "_", "1">>) @@ ("two" :> <<"O", "N", "E">>),
                            (Key("Debugwireargs", "one") :> <<"k", "_", "1">>)
                              @@ (Key("Debugwireargs", "two") :> <<"O", "N", "E">>)
                              @@ (<<"x", "1">> :> <<"z">>)))}

\* getbundle: any of its four parameters, inside the star
GetbundleKeys == {"heads", "common", "bundlecaps", "listkeys"}
GetbundleOrder == <<"heads", "common", "bundlecaps", "listkeys">>
CommaValues == << <<"c", "a", "p", "1">>, <<"C", "A", "P", "2">> >>

GetbundleValue(key, h) ==
    IF key \in {"heads", "common"} THEN <<h>> ELSE CommaValues

GetbundleWire(key, h) ==
    Named(Key("Getbundle", key),
          IF key \in {"heads", "common"} THEN h ELSE Join(CommaValues, <<",">>))

GetbundleSessions ==
    {Session("valid",
             Line("Getbundle")
               \o Star(With(SelectSeq(GetbundleOrder, LAMBDA k : k \in present),
                            LAMBDA ks : [i \in 1..Len(ks) |-> GetbundleWire(ks[i], h)])),
             Request("Getbundle",
                     [k \in GetbundleKeys |->
                        IF k \in present THEN GetbundleValue(k, h) ELSE <<>>],
                     EmptyParams)) :
        present \in SUBSET GetbundleKeys, h \in {NodeHash("1")}}

\* getbundle with the parameters of present in its star, after the entries
\* pre and before the entries post
GetbundleInput(present, pre, post) ==
    Line("Getbundle")
      \o Star(pre
                \o With(SelectSeq(GetbundleOrder, LAMBDA k : k \in present),
                        LAMBDA ks : [i \in 1..Len(ks) |-> GetbundleWire(ks[i], NodeHash("1"))])
                \o post)

\* entries getbundle has no field for, before and after the others
GetbundleExtras ==
    {<< <<>>, Fillers(1) >>, << Fillers(1), <<>> >>,
     << <<Named(<<"c", "g">>, <<"1">>)>>, Fillers(MaxStar) >>}

GetbundlePresent ==
    {{}, {"heads"}, {"bundlecaps", "listkeys"}, GetbundleKeys}

GetbundleExtraSessions ==
    {Session("valid",
             GetbundleInput(present, e[1], e[2]),
             Request("Getbundle",
                     [k \in GetbundleKeys |->
                        IF k \in present THEN GetbundleValue(k, NodeHash("1")) ELSE <<>>],
                     EmptyParams)) :
        present \in GetbundlePresent, e \in GetbundleExtras}

IdentSessions ==
    {Session("valid",
             Line(c[1]) \o Named(Key(c[1], c[2]), v),
             Request(c[1], c[2] :> v, EmptyParams)) :
        c \in {<<"Listkeys", "namespace">>, <<"Lookup", "key">>}, v \in Idents}

PushkeySessions ==
    {Session("valid",
             Line("Pushkey")
               \o Named(Key("Pushkey", "namespace"), <<"b", "o", "o", "k", "m", "a", "r", "k", "s">>)
               \o Named(Key("Pushkey", "key"), k)
               \o Named(Key("Pushkey", "old"), NodeHash("1"))
               \o Named(Key("Pushkey", "new"), h),
             Request("Pushkey",
                     ("namespace" :> <<"b", "o", "o", "k", "m", "a", "r", "k", "s">>) @@ ("key" :> k)
                       @@ ("old" :> NodeHash("1")) @@ ("new" :> h),
                     EmptyParams)) :
        k \in Idents, h \in NodeHashes}

\* the commands a client can send in the normal dialect, well-formed
ValidSessions ==
    NoParamSessions \cup HashListSessions \cup BetweenSessions
      \cup ChangegroupsubsetSessions \cup KnownSessions \cup BatchSessions
      \cup DebugwireargsSessions \cup StarSessions \cup DuplicateSessions
      \cup GetbundleSessions \cup GetbundleExtraSessions \cup IdentSessions
      \cup PushkeySessions

\* the batch escape of the client: the inverse of unescape
Escaped(c) ==
    CASE c = ":" -> <<":", "c">>
      [] c = "," -> <<":", "o">>
      [] c = ";" -> <<":", "s">>
      [] c = "=" -> <<":", "e">>
      [] OTHER -> <<c>>

escape(s) == Concat([i \in 1..Len(s) |-> Escaped(s[i])])

\* key=value(,key=value)*
BatchWire(keys, vals) ==
    Join([i \in 1..Len(keys) |-> escape(keys[i]) \o <<"=">> \o escape(vals[i])], <<",">>)

\* the commands of the batch dialect, well-formed: the parameters end where
\* the buffer ends
BatchDialectSessions ==
    {Session("batch", Line(c), Request(c, <<>>, EmptyParams)) : c \in {"Heads", "Hello"}}
      \cup {Session("batch", Line("Getbundle"),
                    Request("Getbundle", [k \in GetbundleKeys |-> <<>>], EmptyParams))}
      \cup {Session("batch",
                    Line(c[1]) \o BatchWire(<<Key(c[1], c[2])>>, <<v>>),
                    Request(c[1], c[2] :> v, EmptyParams)) :
              c \in {<<"Listkeys", "namespace">>, <<"Lookup", "key">>},
              v \in {<<"O", "N", "E">>, <<"k", "_", "1">>}}
      \cup {Session("batch",
                    Line("Debugwireargs")
                      \o BatchWire(<<Key("Debugwireargs", "one"), Key("Debugwireargs", "two")>>
                                     \o extra[1],
                                   <<a, a>> \o extra[2]),
                    Request("Debugwireargs", ("one" :> a) @@ ("two" :> a),
                            (Key("Debugwireargs", "one") :> a) @@ (Key("Debugwireargs", "two") :> a)
                              @@ [k \in {extra[1][i] : i \in 1..Len(extra[1])} |-> extra[2][1]])) :
              a \in {<<"O", "N", "E">>},
              extra \in {<< <<>>, <<>> >>, << << <<"x", "=">> >>, << <<"y", ",", ":">> >> >>}}

\* a key written twice in the list of a batch command
BatchDuplicateSessions ==
    {Session("batch",
             Line("Debugwireargs")
               \o BatchWire(<<Key("Debugwireargs", "one"), Key("Debugwireargs", "two"),
                              Key("Debugwireargs", "one")>>,
                            <<<<"O", "N", "E">>, <<"O", "N", "E">>, <<"k", "_", "1">>>>),
             Request("Debugwireargs",
                     ("one" :> <<"k", "_", "1">>) @@ ("two" :> <<"O", "N", "E">>),
                     (Key("Debugwireargs", "one") :> <<"k", "_", "1">>)
                       @@ (Key("Debugwireargs", "two") :> <<"O", "N", "E">>)))}

\* bytes after a batch command that are not parameters: no '=', no
\* parameter after the comma, an escape that does not exist
BatchTails ==
    {<<"f", "o", "o">>, <<",", "b", "a", "r">>, <<"a", "=", ":", "x">>,
     <<",", "x", ":", "z", "=", "y">>}

BatchTailSessions ==
    {[s EXCEPT !.class = "batchtail", !.suffix = t] : s \in BatchDialectSessions, t \in BatchTails}

\* a value the sub-parser of a field accepts, on the wire
SampleValue(parser) ==
    CASE parser \in {"hashlist", "nodehash"} -> NodeHash("1")
      [] parser = "pairlist" -> WirePair(<<NodeHash("1"), NodeHash("a")>>)
      [] parser = "cmdlist" -> <<"h", "e", "l", "l", "o", " ">>
      [] parser = "commavalues" -> <<"c", "a", "p", "1">>
      [] parser \in {"ident_string", "ident_complete"} -> <<"O", "N", "E">>

\* a value from which the sub-parser takes SampleValue and leaves bytes over
TrailingValue(parser, t) ==
    CASE parser \in {"hashlist", "nodehash", "pairlist"} -> SampleValue(parser) \o <<t>>
      [] parser = "cmdlist" -> SampleValue(parser) \o <<";", t, t>>
      [] parser \in {"ident_string", "ident_complete"} -> SampleValue(parser) \o <<"-", t>>

\* the entries of a command whose i-th field has key keys[i] and value vals[i]:
\* getbundle's are inside its star, the others follow the star if there is one
WireOf(entry, keys, vals) ==
    With([i \in 1..Len(entry.fields) |-> Named(keys[i], vals[i])], LAMBDA entries :
      entry.name \o <<"\n">>
        \o (IF entry.kind = "getbundle" THEN Star(entries)
            ELSE IF entry.nargs > Len(entry.fields) THEN Star(<<>>) \o Concat(entries)
            ELSE Concat(entries)))

FieldKeys(entry) == [i \in 1..Len(entry.fields) |-> entry.fields[i].bytes]
FieldSamples(entry) == [i \in 1..Len(entry.fields) |-> SampleValue(entry.fields[i].parser)]

\* <<c, f>>: the f-th field of the c-th command
FieldsAt == UNION {{<<c, f>> : f \in 1..Len(Commands[c].fields)} : c \in 1..Len(Commands)}

\* one field's value has bytes after what its sub-parser takes
TrailBytes == {"x", "0"}

TrailingSessions ==
    {[class |-> "trailing", expect |-> <<>>, suffix |-> <<>>,
      input |-> WireOf(Commands[cf[1]], FieldKeys(Commands[cf[1]]),
                       [FieldSamples(Commands[cf[1]]) EXCEPT
                          ![cf[2]] = TrailingValue(Commands[cf[1]].fields[cf[2]].parser, t)])] :
        cf \in {x \in FieldsAt : Commands[x[1]].fields[x[2]].parser # "commavalues"},
        t \in TrailBytes}

\* one named field's key is replaced by a key the command does not know
MissingSessions ==
    {[class |-> "missing", expect |-> <<>>, suffix |-> <<>>,
      input |-> WireOf(Commands[cf[1]], [FieldKeys(Commands[cf[1]]) EXCEPT ![cf[2]] = <<"z", "z">>],
                       FieldSamples(Commands[cf[1]]))] :
        cf \in {x \in FieldsAt : Commands[x[1]].kind # "getbundle"}}

\* the value of one identifier-typed field has no bytes
EmptyIdentSessions ==
    {[class |-> "emptyident", expect |-> <<>>, suffix |-> <<>>,
      input |-> WireOf(Commands[cf[1]], FieldKeys(Commands[cf[1]]),
                       [FieldSamples(Commands[cf[1]]) EXCEPT ![cf[2]] = <<>>])] :
        cf \in {x \in FieldsAt :
                  Commands[x[1]].fields[x[2]].parser \in {"ident_string", "ident_complete"}}}

\* b is the start of a command's name and newline, or starts with them
Extendable(b) ==
    \E c \in 1..Len(Commands) :
       With(Commands[c].name \o <<"\n">>, LAMBDA line :
       With(Min({Len(b), Len(line)}), LAMBDA m : Take(b, m) = Take(line, m)))

\* the bytes that stand where a command's name or its newline should go on
GarbageBytes == {"x", " ", "\n"}

\* garbage: the start of a command's line, a byte that fits no command, and
\* one more byte
GarbageSessions ==
    {[class |-> "garbage", expect |-> <<>>, suffix |-> <<>>, input |-> i] :
        i \in {g \in UNION {{Take(Commands[c].name \o <<"\n">>, k) \o <<b, "\n">> :
                                k \in 0..Len(Commands[c].name), b \in GarbageBytes} :
                              c \in 1..Len(Commands)} :
                 ~Extendable(Take(g, Len(g) - 1))}}

\* the fields that are lists, and the separator of each
ListParsers == {"hashlist", "pairlist", "cmdlist"}
Separator(parser) == IF parser = "cmdlist" THEN <<";">> ELSE <<" ">>

\* list values that end too early: no bytes at all, an element and a
\* separator, an element, a separator and the first byte of an element
ShortListValues(parser) ==
    { <<>>,
      SampleValue(parser) \o Separator(parser),
      SampleValue(parser) \o Separator(parser) \o Take(SampleValue(parser), 1) }

\* every parameter of the command is there, and the value of one list-typed
\* field ends too early
IncompleteListSessions ==
    UNION {{[class |-> "shortlist", expect |-> <<>>, suffix |-> <<>>,
             input |-> WireOf(Commands[cf[1]], FieldKeys(Commands[cf[1]]),
                              [FieldSamples(Commands[cf[1]]) EXCEPT ![cf[2]] = v])] :
              v \in ShortListValues(Commands[cf[1]].fields[cf[2]].parser)} :
           cf \in {x \in FieldsAt : Commands[x[1]].fields[x[2]].parser \in ListParsers}}

\* the bytes that follow a command in the buffer
SuffixBytes == {"e", "0", "\n", " ", "*"}
Suffixes == UNION {[1..n -> SuffixBytes] : n \in 1..MaxSuffix}

Sessions ==
    ValidSessions
      \cup {[s EXCEPT !.suffix = suffix] : s \in ValidSessions, suffix \in Suffixes}
      \cup TrailingSessions \cup MissingSessions
      \cup BatchDialectSessions \cup BatchTailSessions
      \cup EmptyIdentSessions \cup BatchDuplicateSessions
      \cup GarbageSessions \cup IncompleteListSessions

\* the streams are not in use
StreamsIdle ==
    /\ repo = LadderRepo
    /\ isect = NoIntersect
    /\ anc = NoAncestors
    /\ take = NoTake
    /\ out = <<>>
    /\ seen = <<>>
    /\ result = NoResult
    /\ polls = 0

streamVars == <<repo, isect, anc, take, out, seen, result, polls>>

\* A command followed by other bytes is in the buffer from the start, as in
\* test_parse; otherwise the buffer starts empty.
InitParse ==
    /\ args \in Sessions
    /\ op = IF args.class \in {"batch", "batchtail"} THEN "parse_batch" ELSE "parse"
    /\ buf = IF args.suffix = <<>> THEN <<>> ELSE args.input
    /\ wire = IF args.suffix = <<>> THEN args.input ELSE args.suffix
    /\ before = <<>>
    /\ reply = NoReply
    /\ nom \in [until1 : BOOLEAN]
    /\ StreamsIdle

\* one more byte of the session reaches the buffer
Recv ==
    /\ op \in {"parse", "parse_batch"}
    /\ wire # <<>>
    /\ buf' = Append(buf, Head(wire))
    /\ wire' = Tail(wire)
    /\ before' = <<>>
    /\ reply' = NoReply
    /\ UNCHANGED <<op, args, nom, streamVars>>

\* a call of parse(&mut buf)
Parse ==
    /\ op = "parse"
    /\ \E p \in {parse(buf)} :
         /\ buf' = p.buf
         /\ reply' = p.reply
    /\ before' = buf
    /\ UNCHANGED <<op, args, wire, nom, streamVars>>

\* a call of parse_batch(&mut buf)
ParseBatch ==
    /\ op = "parse_batch"
    /\ \E p \in {parse_batch(buf)} :
         /\ buf' = p.buf
         /\ reply' = p.reply
    /\ before' = buf
    /\ UNCHANGED <<op, args, wire, nom, streamVars>>

NextParse == Recv \/ Parse \/ ParseBatch

SpecParse == InitParse /\ [][NextParse]_vars

-----------------------------------------------------------------------------
(* One parameter of the batch dialect: the client escapes a key and a value
   and writes key=value, and batch_param_escaped reads the pair, as in
   test_batch_param_escaped; unescape is applied to an escaped byte string. *)

\* a key and a value have at most MaxEscape bytes
MaxEscape == 2

\* the bytes the escape rewrites, the second bytes of an escape, and others
EscapeBytes == {":", ",", ";", "=", "c", "x"}
EscapeStrings == UNION {[1..n -> EscapeBytes] : n \in 0..MaxEscape}

InitEscape ==
    /\ args \in [key : EscapeStrings, value : EscapeStrings]
    /\ op = "escape"
    /\ buf = <<>>
    /\ wire = <<>>
    /\ before = <<>>
    /\ reply = NoReply
    /\ nom \in [until1 : BOOLEAN]
    /\ StreamsIdle

\* the client writes the pair
EscapePair ==
    /\ op = "escape"
    /\ wire' = BatchWire(<<args.key>>, <<args.value>>)
    /\ op' = "escaped"
    /\ UNCHANGED <<args, buf, before, reply, nom, streamVars>>

\* batch_param_escaped(wire)
DecodePair ==
    /\ op = "escaped"
    /\ reply' = batch_param_escaped(wire)
    /\ before' = wire
    /\ op' = "decoded"
    /\ UNCHANGED <<args, buf, wire, nom, streamVars>>

\* batch::unescape of the escaped key
UnescapeKey ==
    /\ op = "escaped"
    /\ \E r \in {unescape(escape(args.key))} :
         reply' = IF r.ok THEN Done(<<>>, r.val) ELSE Error("Unescape")
    /\ before' = escape(args.key)
    /\ op' = "unescaped"
    /\ UNCHANGED <<args, buf, wire, nom, streamVars>>

NextEscape == EscapePair \/ DecodePair \/ UnescapeKey

SpecEscape == InitEscape /\ [][NextEscape]_vars

-----------------------------------------------------------------------------
(* Properties *)

Generation(h) == repo.gen[h]

NonIncreasing(s) == \A i \in 1..(Len(s) - 1) : Generation(s[i + 1]) <= Generation(s[i])
NoDuplicates(s) == \A i, j \in 1..Len(s) : i # j => s[i] # s[j]

\* the hashes that occur in every scripted input
InEveryInput == {h \in Hashes : \A i \in 1..Len(args) : h \in Range(args[i].items)}

\* the inputs were handed over as the contract asks: generation-ordered and
\* free of duplicates
InputsOrdered ==
    \A i \in 1..Len(args) : NonIncreasing(args[i].items) /\ NoDuplicates(args[i].items)

\* no poll has returned an error: the stream still holds its inputs
HoldsInputs == Len(isect.inputs) = Len(args)

\* the hashes that are an ancestor-or-self of every node of args
CommonAncestors == {h \in Hashes : \A i \in 1..Len(args) : h \in Closure(repo, args[i])}

\* C1: over N >= 1 generation-ordered, duplicate-free inputs, the hashes an
\* IntersectNodeStream has yielded when it reports end-of-stream are exactly
\* the hashes that occur in every input.
C1_IntersectionLaw ==
    (op = "intersect" /\ result.tag = "End" /\ HoldsInputs /\ Len(args) >= 1
       /\ InputsOrdered)
    => Range(out) = InEveryInput

C1_Witness ==
    /\ op = "intersect" /\ result.tag = "End" /\ HoldsInputs /\ Len(args) = 2
    /\ Range(out) # {}
    /\ \E i \in 1..2 : Range(args[i].items) \ Range(out) # {}

\* C2: when AncestorsNodeStream::new(h) reports end-of-stream it has yielded
\* h and every node reachable from h along parent edges, and nothing else.
C2_AncestorsClosure ==
    (op = "ancestors" /\ result.tag = "End") => Range(out) = Closure(repo, args[1])

C2_Witness ==
    /\ op = "ancestors" /\ result.tag = "End"
    /\ Cardinality(repo.parents[args[1]]) = 2
    /\ Cardinality(Range(out)) >= 3

\* C3: the hashes AncestorsNodeStream yields are in non-increasing generation
\* order.
C3_AncestorsOrdered == op = "ancestors" => NonIncreasing(out)

C3_Witness ==
    /\ op = "ancestors" /\ Len(out) >= 3
    /\ Generation(out[2]) = Generation(out[3])
    /\ Generation(out[1]) > Generation(out[2])

\* C4: the hashes IntersectNodeStream yields are in non-increasing generation
\* order when every input is.
C4_IntersectOrdered == (op = "intersect" /\ InputsOrdered) => NonIncreasing(out)

C4_Witness ==
    /\ op = "intersect" /\ Len(out) >= 2
    /\ Generation(out[1]) > Generation(out[2])

\* C5: AncestorsNodeStream yields no hash twice, also when a node is reached
\* from the seed along parent paths of different lengths.
C5_AncestorsNoDuplicates == op = "ancestors" => NoDuplicates(out)

C5_Witness ==
    /\ op = "ancestors" /\ result.tag = "End"
    /\ \E p, q \in repo.parents[args[1]] : q \in repo.parents[p] /\ q \in Range(out)

\* C6: IntersectNodeStream yields no hash twice when every input is
\* generation-ordered and free of duplicates.
C6_IntersectNoDuplicates == (op = "intersect" /\ InputsOrdered) => NoDuplicates(out)

C6_Witness ==
    /\ op = "intersect" /\ result.tag = "End" /\ Len(args) = 2
    /\ args[1].items = args[2].items
    /\ Len(out) = 2
    /\ Generation(out[1]) = Generation(out[2])

\* C7: when common_ancestors(nodes) reports end-of-stream it has yielded
\* exactly the hashes that are an ancestor-or-self of every node.
C7_CommonAncestors ==
    (op = "common_ancestors" /\ result.tag = "End") => Range(out) = CommonAncestors

\* a is a proper ancestor of b, and common_ancestors([a, b]) gave Ancestors(a)
C7_Witness ==
    /\ op = "common_ancestors" /\ result.tag = "End" /\ Len(args) = 2
    /\ args[1] # args[2] /\ args[1] \in Closure(repo, args[2])
    /\ Cardinality(Closure(repo, args[1])) >= 2
    /\ Range(out) = Closure(repo, args[1])

\* C8: greatest_common_ancestor(nodes) yields at most one hash and after it
\* only end-of-stream; when the nodes have a common ancestor and the stream
\* has ended, the hash it yielded is a common ancestor of the greatest
\* generation among the common ancestors.
C8_GreatestCommonAncestor ==
    op = "greatest_common_ancestor" =>
      /\ Len(out) <= 1
      /\ (Len(out) = 1 /\ result.tag # "Item") => result.tag = "End"
      /\ (result.tag = "End" /\ CommonAncestors # {}) =>
           /\ Len(out) = 1
           /\ out[1] \in CommonAncestors
           /\ \A h \in CommonAncestors : Generation(h) <= Generation(out[1])

C8_Witness ==
    /\ op = "greatest_common_ancestor" /\ result.tag = "End" /\ Len(out) = 1
    /\ Len(args) = 2 /\ args[1] # args[2]
    /\ Cardinality(CommonAncestors) >= 2

\* C9: when the nodes of greatest_common_ancestor have no common ancestor the
\* stream yields no hash and no error, and ends with nothing yielded.
C9_NoCommonAncestor ==
    (op = "greatest_common_ancestor" /\ CommonAncestors = {}) =>
      /\ out = <<>>
      /\ result.tag \in {"None", "NotReady", "End"}

C9_Witness ==
    /\ op = "greatest_common_ancestor" /\ CommonAncestors = {}
    /\ result.tag = "End" /\ out = <<>>
    /\ \E i \in 1..Len(args) : repo.parents[args[i]] # {}

C11_SlowInputs ==
    op = "slow" =>
      /\ result.tag # "Err"
      /\ result.tag = "NotReady" => \E i \in 1..Len(seen) : seen[i].tag = "NotReady"
      /\ Range(out) \subseteq InEveryInput
      /\ result.tag = "End" => (Range(out) = InEveryInput /\ NoDuplicates(out))
      /\ (Len(args) = 1 /\ args[1].kind = "notready") =>
            /\ polls <= args[1].poll_count + 1
            /\ polls = args[1].poll_count + 1 => result.tag = "End"
            /\ (0 < polls /\ polls <= args[1].poll_count) => result.tag = "NotReady"

\* one input that is not ready MaxRepeats times has ended the stream at poll
\* MaxRepeats + 1
C11_Witness ==
    /\ op = "slow"
    /\ Len(args) = 1
    /\ args[1].kind = "notready"
    /\ args[1].poll_count = MaxRepeats
    /\ polls = MaxRepeats + 1
    /\ result.tag = "End"

-----------------------------------------------------------------------------
(* Properties of the request parser *)

IsPrefix(p, s) == Len(p) <= Len(s) /\ Take(s, Len(p)) = p

\* parse or parse_batch has been called on the buffer as it is
Called == reply.tag # "NoCall"

\* C12: for a well-formed command I of the normal dialect, parse on a buffer
\* holding a strict prefix of I returns Ok(None), and parse on a buffer
\* holding exactly I returns the request I stands for and empties the buffer.
C12_IncrementalParse ==
    (op = "parse" /\ args.class = "valid" /\ Called) =>
      /\ (IsPrefix(before, args.input) /\ Len(before) < Len(args.input))
           => (reply = ReplyNone /\ buf = before)
      /\ before = args.input => (reply = ReplySome(args.expect) /\ buf = <<>>)

\* a changegroupsubset command has been parsed from a buffer that received it
\* byte by byte
C12_Witness ==
    /\ op = "parse"
    /\ args.class = "valid"
    /\ args.suffix = <<>>
    /\ args.expect.name = "Changegroupsubset"
    /\ before = args.input
    /\ reply = ReplySome(args.expect)

\* C13: for a well-formed command I of the normal dialect followed by any
\* bytes S, parse on a buffer holding I ++ S returns the request I stands
\* for and leaves exactly S in the buffer.
C13_ExtraBytesPreserved ==
    (op = "parse" /\ args.class = "valid" /\ Called /\ IsPrefix(args.input, before)) =>
      /\ reply = ReplySome(args.expect)
      /\ before = args.input \o buf

\* a getbundle command followed by one more byte has been parsed, and the
\* byte is what the buffer holds
C13_Witness ==
    /\ op = "parse"
    /\ args.class = "valid"
    /\ args.expect.name = "Getbundle"
    /\ args.suffix # <<>>
    /\ before = args.input \o args.suffix
    /\ reply = ReplySome(args.expect)
    /\ buf = args.suffix

\* the dialect of the session
Dialect == IF op = "parse_batch" THEN "batch" ELSE "normal"

\* C14: a call of parse or parse_batch that returns Ok(None) or Err leaves
\* the buffer as it was, and a second call on it returns the same outcome.
C14_FailureKeepsBuffer ==
    (op \in {"parse", "parse_batch"} /\ reply.tag \in {"None", "Err"}) =>
      /\ buf = before
      /\ parse_common(buf, Dialect) = [buf |-> buf, reply |-> reply]

\* parse_batch has failed on a lookup without its key, and the buffer is in
\* the error and still in place
C14_Witness ==
    /\ op = "parse_batch"
    /\ reply.tag = "Err"
    /\ before = Line("Lookup")
    /\ reply.buffer = before
    /\ buf = before

\* C15: a call of parse that returns Ok(Some(request)) removes at least one
\* byte from the front of the buffer.
C15_SuccessAdvances ==
    (op = "parse" /\ reply.tag = "Some") =>
      /\ Len(buf) < Len(before)
      /\ Drop(before, Len(before) - Len(buf)) = buf

\* parse has returned a request of a command without parameters: the
\* shortest commands there are
C15_Witness ==
    /\ op = "parse"
    /\ reply.tag = "Some"
    /\ reply.request.name = "Heads"
    /\ Len(before) = Len(Line("Heads"))
    /\ buf = <<>>

\* the parameters parse_command reads for a command from the buffer b
ParamsOf(b, entry, dialect) ==
    Then(Tag(b, entry.name), LAMBDA name :
    Then(Tag(name.rest, <<"\n">>), LAMBDA nl :
      ParseParams(dialect, nl.rest, entry.nargs)))

\* the commands whose name and parameters the buffer b holds
Matched(b, dialect) ==
    {c \in 1..Len(Commands) : ParamsOf(b, Commands[c], dialect).tag = "Done"}

\* the sub-parser of a field of the entry succeeds on the field's value in
\* kv and leaves bytes over
LeavesTrailing(entry, kv) ==
    \E f \in 1..Len(entry.fields) :
      /\ entry.fields[f].bytes \in DOMAIN kv
      /\ \E r \in {FieldParser(entry.fields[f].parser, kv[entry.fields[f].bytes])} :
           r.tag = "Done" /\ r.rest # <<>>

\* C16: when the sub-parser of a field, required or with a default, succeeds
\* on the value of the parameter and leaves bytes unconsumed, the call
\* returns an error and no request.
C16_TrailingBytesRejected ==
    (Called /\ \E c \in Matched(before, Dialect) :
                 LeavesTrailing(Commands[c], ParamsOf(before, Commands[c], Dialect).val))
      => (reply.tag = "Err" /\ buf = before)

\* getbundle, whose fields have defaults, has been rejected because a hash
\* list in it is followed by one more byte
C16_Witness ==
    /\ op = "parse"
    /\ args.class = "trailing"
    /\ before = args.input
    /\ IsPrefix(Line("Getbundle"), before)
    /\ LeavesTrailing(CommandOf("Getbundle"), ParamsOf(before, CommandOf("Getbundle"), "normal").val)
    /\ reply.tag = "Err"

\* a named field of the entry has no value in kv
LacksField(entry, kv) ==
    \E f \in 1..Len(entry.fields) : entry.fields[f].bytes \notin DOMAIN kv

\* C17: for a command other than getbundle, when the parameters read for the
\* command lack one of its named fields, parse returns an error and no
\* request.
C17_MissingFieldRejected ==
    (op = "parse" /\ Called
       /\ \E c \in Matched(before, "normal") :
            /\ Commands[c].kind # "getbundle"
            /\ LacksField(Commands[c], ParamsOf(before, Commands[c], "normal").val))
      => (reply.tag = "Err" /\ buf = before)

\* pushkey has been rejected: all four parameters were read, and one of them
\* has a key that is not a field of pushkey
C17_Witness ==
    /\ op = "parse"
    /\ args.class = "missing"
    /\ before = args.input
    /\ IsPrefix(Line("Pushkey"), before)
    /\ LacksField(CommandOf("Pushkey"), ParamsOf(before, CommandOf("Pushkey"), "normal").val)
    /\ reply.tag = "Err"

\* the sub-parser of every field of the entry that has a value in kv takes
\* the whole value
PresentFieldsParse(entry, kv) ==
    \A f \in 1..Len(entry.fields) :
      entry.fields[f].bytes \in DOMAIN kv =>
        \E r \in {FieldParser(entry.fields[f].parser, kv[entry.fields[f].bytes])} :
          r.tag = "Done" /\ r.rest = <<>>

\* the fields of the entry that have no value in kv are the empty list in
\* the request
AbsentFieldsEmpty(entry, kv, request) ==
    \A f \in 1..Len(entry.fields) :
      entry.fields[f].bytes \notin DOMAIN kv => request.fields[entry.fields[f].key] = <<>>

\* getbundle with nothing in its star
GetbundleBare == Line("Getbundle") \o <<"*", " ", "0", "\n">>

\* C18: for getbundle, each of heads, common, bundlecaps and listkeys that
\* has no value in the parameter map is the empty list in the request, and
\* the parse succeeds; "getbundle\n* 0\n" gives a request whose four lists
\* are empty.
C18_GetbundleDefaults ==
    (op = "parse" /\ Called
       /\ ParamsOf(before, CommandOf("Getbundle"), "normal").tag = "Done") =>
      \E kv \in {ParamsOf(before, CommandOf("Getbundle"), "normal").val} :
        /\ PresentFieldsParse(CommandOf("Getbundle"), kv) =>
             /\ reply.tag = "Some"
             /\ reply.request.name = "Getbundle"
             /\ AbsentFieldsEmpty(CommandOf("Getbundle"), kv, reply.request)
        /\ IsPrefix(GetbundleBare, before) =>
             /\ reply = ReplySome(Request("Getbundle",
                                          [k \in GetbundleKeys |-> <<>>], EmptyParams))
             /\ before = GetbundleBare \o buf

\* getbundle has been parsed with bundlecaps alone in its star: heads,
\* common and listkeys are empty in the request
C18_Witness ==
    /\ op = "parse"
    /\ args.class = "valid"
    /\ before = Line("Getbundle") \o Star(<<GetbundleWire("bundlecaps", <<>>)>>)
    /\ reply.tag = "Some"
    /\ reply.request.fields["bundlecaps"] = CommaValues
    /\ reply.request.fields["heads"] = <<>>
    /\ reply.request.fields["common"] = <<>>
    /\ reply.request.fields["listkeys"] = <<>>

\* the sessions in which a star is one of the slots of the command
WithStar == DebugwireargsSessions \cup StarSessions

\* C19: params counts a star as one of its count slots, whatever the star
\* expands to (nothing, one entry, several, stars), counts a named entry as
\* one slot, and puts the entries of the star in the map of the named
\* entries: debugwireargs, which reads three slots, is complete exactly when
\* the third slot is, and its map holds the entries of all depths.
C19_StarIsOneSlot ==
    (op = "parse" /\ Called /\ [args EXCEPT !.suffix = <<>>] \in WithStar) =>
      /\ (IsPrefix(before, args.input) /\ Len(before) < Len(args.input)) => reply = ReplyNone
      /\ IsPrefix(args.input, before) =>
           /\ reply.tag = "Some"
           /\ reply.request.all_args = args.expect.all_args
           /\ reply.request.fields = args.expect.fields
           /\ before = args.input \o buf

\* debugwireargs has been parsed from three slots that are all stars: an
\* empty one, one with both fields, one with an empty star
C19_Witness ==
    /\ op = "parse"
    /\ args.input = Line("Debugwireargs")
                      \o Star(<<>>)
                      \o Star(<<Named(Key("Debugwireargs", "one"), <<"O", "N", "E">>),
                                Named(Key("Debugwireargs", "two"), <<"k", "_", "1">>)>>)
                      \o Star(<<Star(<<>>)>>)
    /\ before = args.input
    /\ reply.tag = "Some"
    /\ DOMAIN reply.request.all_args = {Key("Debugwireargs", "one"), Key("Debugwireargs", "two")}

\* C20: in the batch dialect the count is ignored and all of the input after
\* the command line is the comma-separated key=value list: whenever
\* parse_batch returns a request the buffer is left empty, and a command line
\* with nothing after it gives an empty map.
C20_BatchConsumesAll ==
    (op = "parse_batch" /\ reply.tag = "Some") =>
      /\ buf = <<>>
      /\ (\E c \in 1..Len(Commands) : before = Commands[c].name \o <<"\n">>)
           => reply.request.all_args = EmptyParams

\* parse_batch has returned Heads from "heads\nfoo", and "foo" is what the
\* buffer holds
C20_Witness ==
    /\ op = "parse_batch"
    /\ before = Line("Heads") \o <<"f", "o", "o">>
    /\ reply = ReplySome(Request("Heads", <<>>, EmptyParams))
    /\ buf = <<"f", "o", "o">>

\* s holds ':' followed by a byte that is not the second byte of an escape
RECURSIVE UnknownEscape(_)
UnknownEscape(s) ==
    IF Len(s) < 2 THEN FALSE
    ELSE IF s[1] = ":"
    THEN s[2] \notin DOMAIN Unescaped \/ UnknownEscape(Drop(s, 2))
    ELSE UnknownEscape(Tail(s))

\* C21: in the batch dialect, when a key or a value after the command line
\* holds an unknown escape, parse_batch returns an error, whatever the
\* command; it does not return a request built without the parameter.
C21_UnknownEscapeRejected ==
    (op = "parse_batch" /\ Called
       /\ \E c \in 1..Len(Commands) :
            /\ IsPrefix(Commands[c].name \o <<"\n">>, before)
            /\ UnknownEscape(Drop(before, Len(Commands[c].name) + 1)))
      => reply.tag = "Err"

\* parse_batch has returned Getbundle from "getbundle\na=:x", and the
\* parameter with the unknown escape is what the buffer holds
C21_Witness ==
    /\ op = "parse_batch"
    /\ before = Line("Getbundle") \o <<"a", "=", ":", "x">>
    /\ reply.tag = "Some"
    /\ reply.request.name = "Getbundle"
    /\ buf = <<"a", "=", ":", "x">>

\* C22: unescaping the escaped form of a byte string gives the byte string
\* back, and batch_param_escaped reads key=value, key and value escaped, as
\* the key and the value, for every key that is not empty.
C22_EscapeRoundTrip ==
    /\ op = "unescaped" => reply = Done(<<>>, args.key)
    /\ (op = "decoded" /\ args.key # <<>>) => reply = Done(<<>>, <<args.key, args.value>>)

\* C22 as the specification has it: for every key, the empty one included
C22_EscapeRoundTripAnyKey ==
    /\ op = "unescaped" => reply = Done(<<>>, args.key)
    /\ op = "decoded" => reply = Done(<<>>, <<args.key, args.value>>)

\* a key and a value made of the bytes the escape rewrites have been read
\* back from the pair
C22_Witness ==
    /\ op = "decoded"
    /\ args.key = <<":", "=">>
    /\ args.value = <<",", ";">>
    /\ before = <<":", "c", ":", "e", "=", ":", "o", ":", "s">>
    /\ reply = Done(<<>>, <<args.key, args.value>>)

\* [A-Za-z_][A-Za-z0-9_]*
IsIdent(v) ==
    /\ v # <<>>
    /\ v[1] \in Lower \cup Upper \cup {"_"}
    /\ \A i \in 1..Len(v) : v[i] \in Lower \cup Upper \cup Digits \cup {"_"}

\* C23: every value that ident, ident_complete or ident_string accepts has
\* the form [A-Za-z_][A-Za-z0-9_]*: in a request, the value of a field read
\* by ident_string or ident_complete has it, and a value of no bytes is
\* rejected.
C23_IdentsWellFormed ==
    (op \in {"parse", "parse_batch"} /\ reply.tag = "Some") =>
      \A f \in 1..Len(CommandOf(reply.request.name).fields) :
        CommandOf(reply.request.name).fields[f].parser \in {"ident_string", "ident_complete"}
          => IsIdent(reply.request.fields[CommandOf(reply.request.name).fields[f].key])

\* parse has returned a Lookup whose key has no bytes from "lookup\nkey 0\n"
C23_Witness ==
    /\ op = "parse"
    /\ before = Line("Lookup") \o Named(Key("Lookup", "key"), <<>>)
    /\ reply = ReplySome(Request("Lookup", "key" :> <<>>, EmptyParams))
    /\ buf = <<>>

\* C24: when a key is written more than once among the parameters of a
\* command (at top level, in a star, in the list of a batch command), the
\* parse does not fail for it and the map holds the value written last.
C24_LastValueWins ==
    (Called /\ [args EXCEPT !.suffix = <<>>] \in DuplicateSessions \cup BatchDuplicateSessions
       /\ (before = args.input \/ (op = "parse" /\ IsPrefix(args.input, before)))) =>
      /\ reply = ReplySome(args.expect)
      /\ before = args.input \o buf

\* debugwireargs has been parsed with the key one written in a star of a
\* star and again in the outer star: the value written last is in the map
C24_Witness ==
    /\ op = "parse"
    /\ args.input = Line("Debugwireargs")
                      \o Star(<<Star(<<Named(Key("Debugwireargs", "one"), <<"O", "N", "E">>)>>),
                                Named(Key("Debugwireargs", "one"), <<"k", "_", "1">>)>>)
                      \o Named(Key("Debugwireargs", "two"), <<"O", "N", "E">>)
                      \o Star(<<>>)
    /\ before = args.input
    /\ reply.tag = "Some"
    /\ reply.request.all_args[Key("Debugwireargs", "one")] = <<"k", "_", "1">>

\* C25: getbundle ignores the parameters whose key is not heads, common,
\* bundlecaps or listkeys: with such entries added in the star, parse returns
\* the request it returns without them, and no error.
C25_GetbundleIgnoresUnknown ==
    (op = "parse" /\ Called /\ args.class = "valid" /\ args.expect.name = "Getbundle") =>
      \A present \in GetbundlePresent, e \in GetbundleExtras :
        before = GetbundleInput(present, e[1], e[2]) =>
          /\ reply.tag = "Some"
          /\ reply = parse(GetbundleInput(present, <<>>, <<>>)).reply
          /\ buf = <<>>

\* getbundle has been parsed with its four parameters between an entry cg
\* and two more entries it has no field for
C25_Witness ==
    /\ op = "parse"
    /\ before = GetbundleInput(GetbundleKeys, <<Named(<<"c", "g">>, <<"1">>)>>, Fillers(MaxStar))
    /\ reply.tag = "Some"
    /\ reply.request.fields["heads"] = <<NodeHash("1")>>
    /\ reply.request.fields["listkeys"] = CommaValues

\* C26: an IntersectNodeStream is a valid input of an IntersectNodeStream:
\* for inputs A, B, C that are non-increasing in generation and without
\* duplicates, Intersect(Intersect(A, B), C) never fails and, polled to its
\* end, has yielded the hashes Intersect(A, B, C) yields, which are the
\* hashes that are in A, in B and in C.
C26_NestingLaw ==
    op = "nested" =>
      /\ result.tag # "Err"
      /\ result.tag = "End" =>
           /\ Range(out) = Range(RunIntersect(Flat(args), <<>>))
           /\ Range(out) = {h \in Hashes : \A i \in 1..3 : h \in Range(args[i].items)}

\* the nested stream has ended after yielding a hash, and another hash that
\* A and B have in common, of a higher generation, is not in C
C26_Witness ==
    /\ op = "nested"
    /\ result.tag = "End"
    /\ Len(out) = 1
    /\ repo.gen[out[1]] = 1
    /\ \E h \in Hashes :
         /\ repo.gen[h] = 2
         /\ h \in Range(args[1].items) /\ h \in Range(args[2].items) /\ h \notin Range(args[3].items)

\* C27: an IntersectNodeStream over no inputs returns end-of-stream on its
\* first poll: it yields no hash, is not not-ready and does not fail.
C27_NoInputsEnds ==
    (op = "intersect" /\ Len(args) = 0) =>
      /\ out = <<>>
      /\ result \in {NoResult, ReadyNone}
      /\ isect = NoIntersect

\* the stream over no inputs has been polled
C27_Witness ==
    /\ op = "intersect"
    /\ Len(args) = 0
    /\ result = ReadyNone

\* C28: when parse fails because a required parameter is absent or because
\* the value of a field has trailing bytes, the error is a CommandParse error
\* with a copy of the buffer, and the error it wraps names the failure:
\* MissingParam in the first case, UnconsumedParamBytes in the second.
C28_ErrorNamesCause ==
    (op = "parse" /\ Called /\ before = args.input /\ args.class \in {"missing", "trailing"}) =>
      /\ reply.tag = "Err"
      /\ reply.buffer = before
      /\ reply.cause = IF args.class = "missing" THEN "MissingParam"
                       ELSE "UnconsumedParamBytes"

\* parse has failed on a lookup whose key is absent, and on the same buffer
\* with a key that has trailing bytes it fails with the same wrapped error
C28_Witness ==
    /\ op = "parse"
    /\ args.class = "missing"
    /\ before = args.input
    /\ IsPrefix(Line("Lookup"), before)
    /\ reply = ReplyErr(before, "Alt")
    /\ \E s \in TrailingSessions :
         /\ IsPrefix(Line("Lookup"), s.input)
         /\ parse(s.input).reply.cause = reply.cause

-----------------------------------------------------------------------------
(* The loop of IntersectNodeStream::poll, turn by turn *)

\* the generations of the heads among the slots
HeadsOf(states) ==
    {states[i].gen : i \in {j \in 1..Len(states) : states[j].tag = "Item"}}

\* the turn reached the match on self.current_generation: it did not return a
\* drained hash, an error or NotReady before it
Advanced(res) == res.tag \in {"None", "End"}

\* C29: current_generation goes from unset to set only in a turn in which,
\* after the inputs were polled, no slot is not ready and the accumulator is
\* empty; it becomes the least generation among the heads of the inputs that
\* have not ended, and it stays unset when there is no such head.
C29_GenerationSetAtBarrier ==
    [][op = "loop" =>
         /\ (isect.current_generation = {} /\ isect'.current_generation # {}) =>
              /\ \A i \in 1..Len(seen') : seen'[i].tag \in {"Item", "End"}
              /\ IsEmpty(isect.accumulator)
              /\ IsEmpty(isect'.accumulator)
              /\ HeadsOf(seen') # {}
              /\ isect'.current_generation = {Min(HeadsOf(seen'))}
         /\ (/\ isect.current_generation = {}
             /\ Advanced(result')
             /\ IsEmpty(isect.accumulator)
             /\ HeadsOf(seen') = {}) => isect'.current_generation = {}
    ]_vars

\* the generation has just been set to the lower of two heads' generations
C29_Witness ==
    /\ op = "loop"
    /\ result.tag = "None"
    /\ Len(seen) = 2
    /\ seen[1].tag = "Item"
    /\ seen[2].tag = "Item"
    /\ seen[1].gen > seen[2].gen
    /\ isect.current_generation = {seen[2].gen}
    /\ IsEmpty(isect.accumulator)
    /\ \A i \in 1..Len(seen) : isect.inputs[i].state = seen[i]

\* C30: in a turn that reaches the match with current_generation = g set, a
\* head of a generation above g leaves its slot not ready and raises no count
\* of the accumulator (a count is raised only for a hash of generation g, so
\* the dropped head cannot make its hash be yielded); a head of a generation
\* below g stays in its slot as it was.
C30_HigherHeadsDropped ==
    [][(op = "loop" /\ Advanced(result') /\ isect.current_generation # {}) =>
         /\ \A i \in 1..Len(seen') : \A g \in isect.current_generation :
              /\ (seen'[i].tag = "Item" /\ seen'[i].gen > g) =>
                   /\ isect'.inputs[i].state = NotReady
                   /\ isect'.accumulator[seen'[i].hash] = isect.accumulator[seen'[i].hash]
              /\ (seen'[i].tag = "Item" /\ seen'[i].gen < g) =>
                   isect'.inputs[i].state = seen'[i]
         /\ \A h \in Hashes :
              isect'.accumulator[h] > isect.accumulator[h] =>
                 isect.current_generation = {repo.gen[h]}
    ]_vars

\* a head above the current generation has just been consumed and dropped,
\* while the other input's head was counted
C30_Witness ==
    /\ op = "loop"
    /\ result.tag = "None"
    /\ Len(seen) = 2
    /\ seen[1].tag = "Item"
    /\ seen[2].tag = "Item"
    /\ isect.current_generation = {seen[2].gen}
    /\ seen[1].gen > seen[2].gen
    /\ isect.inputs[1].state = NotReady
    /\ isect.inputs[2].state = NotReady
    /\ isect.accumulator[seen[1].hash] = 0
    /\ isect.accumulator[seen[2].hash] = 1

\* accumulate_nodes has just met a head below the current generation and left
\* it in its slot: the match was reached, no drain was made and no generation
\* is set although a head is there, so current_generation was set and no head
\* reached it
C30_LowerHeadKept ==
    /\ op = "loop"
    /\ result.tag = "None"
    /\ isect.current_generation = {}
    /\ ~isect.drain.some
    /\ \E i \in 1..Len(seen) :
         /\ seen[i].tag = "Item"
         /\ isect.inputs[i].state = seen[i]

\* the turn met a head of generation g, or of g and above
HeadAt(states, g) == \E i \in 1..Len(states) : states[i].tag = "Item" /\ states[i].gen = g
HeadFrom(states, g) == \E i \in 1..Len(states) : states[i].tag = "Item" /\ states[i].gen >= g

\* C31 as stated: a turn that reaches the match with current_generation = g
\* set and meets no head of generation g clears current_generation.
C31_ClearedWithoutContribution ==
    [][(op = "loop" /\ Advanced(result')) =>
         \A g \in isect.current_generation :
            ~HeadAt(seen', g) => isect'.current_generation = {}
    ]_vars

\* C31, amended: a turn that reaches the match with current_generation = g set
\* clears it exactly when it meets no head of generation g or above; a head
\* above g is consumed and keeps the generation set.
C31_ClearedWithoutConsumption ==
    [][(op = "loop" /\ Advanced(result')) =>
         \A g \in isect.current_generation :
            isect'.current_generation = IF HeadFrom(seen', g) THEN {g} ELSE {}
    ]_vars

\* accumulate_nodes has just cleared the generation and left the counts of
\* the generation in the accumulator
C31_Witness ==
    /\ op = "loop"
    /\ result.tag = "None"
    /\ isect.current_generation = {}
    /\ ~isect.drain.some
    /\ ~IsEmpty(isect.accumulator)
    /\ \A i \in 1..Len(seen) : isect.inputs[i].state = seen[i]

\* C32: a turn in which, after the inputs were polled, a slot is not ready,
\* no drained hash is returned and no input is in error returns NotReady and
\* leaves current_generation and the accumulator as they were; a turn polls
\* only the inputs whose slot is not ready, so a head stays in its slot, and
\* its stream is not advanced, until accumulate_nodes consumes it.
C32_Barrier ==
    [][op = "loop" =>
         /\ (/\ \E i \in 1..Len(seen') : seen'[i].tag = "NotReady"
             /\ result'.tag # "Item"
             /\ \A i \in 1..Len(seen') : seen'[i].tag # "Err") =>
              /\ result' = NotReady
              /\ isect'.current_generation = isect.current_generation
              /\ isect'.accumulator = isect.accumulator
         /\ (\/ isect'.current_generation # isect.current_generation
             \/ isect'.accumulator # isect.accumulator) =>
              \A i \in 1..Len(seen') : seen'[i].tag \in {"Item", "End"}
         /\ \A i \in 1..Len(isect.inputs) :
              isect.inputs[i].state.tag # "NotReady" =>
                 /\ seen'[i] = isect.inputs[i].state
                 /\ isect'.inputs # <<>> => isect'.inputs[i].stream = isect.inputs[i].stream
    ]_vars

\* poll has returned NotReady at the barrier: one input was not ready, the
\* other's head waits in its slot, and the generation and its counts are kept
C32_Witness ==
    /\ op = "loop"
    /\ result = NotReady
    /\ Len(seen) = 2
    /\ seen[1].tag = "NotReady"
    /\ seen[2].tag = "Item"
    /\ isect.inputs[2].state = seen[2]
    /\ isect.current_generation = {seen[2].gen}
    /\ ~IsEmpty(isect.accumulator)

\* an input's end is in its slot and nothing is counted or being drained
EndedAndEmpty ==
    /\ \E i \in 1..Len(isect.inputs) : isect.inputs[i].state.tag = "End"
    /\ ~isect.drain.some
    /\ IsEmpty(isect.accumulator)

\* C33 as stated: once an input has ended and the drain and the accumulator
\* are empty, the first turn that leaves no slot not ready returns
\* end-of-stream; end-of-stream is returned only with the accumulator and the
\* drain empty.
C33_EndsOnceAnInputEnded ==
    [][op = "loop" =>
         /\ (EndedAndEmpty /\ \A i \in 1..Len(seen') : seen'[i].tag # "NotReady") =>
              result' = ReadyNone
         /\ result' = ReadyNone =>
              (IsEmpty(isect'.accumulator) /\ ~isect'.drain.some)
    ]_vars

\* C33, amended: the same, for a turn that leaves no slot not ready and none
\* in error (an input's error is returned before the end is looked at).
C33_EndsOnceAnInputEndedNoError ==
    [][op = "loop" =>
         /\ (EndedAndEmpty /\ \A i \in 1..Len(seen') : seen'[i].tag \in {"Item", "End"}) =>
              result' = ReadyNone
         /\ result' = ReadyNone =>
              (IsEmpty(isect'.accumulator) /\ ~isect'.drain.some)
    ]_vars

\* end-of-stream has been returned while the other input holds a head and has
\* more to yield
C33_Witness ==
    /\ op = "loop"
    /\ result = ReadyNone
    /\ Len(seen) = 2
    /\ seen[1].tag = "End"
    /\ isect.inputs[2].state.tag = "Item"
    /\ isect.inputs[2].stream.rest # <<>>
    /\ out # <<>>

\* C34: over inputs that are finite and in the end ready, the stream comes to
\* return end-of-stream or an error, and poll always returns: a turn after
\* which the loop goes round again is followed by one that returns.
C34_Terminates ==
    /\ <>(op = "loop" /\ result.tag \in {"End", "Err"})
    /\ [](result.tag = "None" => <>(result.tag # "None"))

\* end-of-stream has been returned after two hashes
C34_Witness ==
    /\ op = "loop"
    /\ result = ReadyNone
    /\ Len(out) = 2
    /\ Len(args) = 2

-----------------------------------------------------------------------------
(* IntersectNodeStream after an input's error *)

\* C39: when poll has returned an input's error no input is left; the next
\* poll returns end-of-stream and yields nothing, whatever the accumulator
\* held, and so does every poll after it.
C39_EndAfterError ==
    [][(op = "intersect" /\ result'.tag = "Err") =>
         /\ isect'.inputs = <<>>
         /\ \A pick \in Hashes :
              \E p \in {IntersectPoll(isect', <<>>, pick)} :
                 /\ p.res = ReadyNone
                 /\ p.st.inputs = <<>>
                 /\ IntersectPoll(p.st, <<>>, pick).res = ReadyNone
    ]_vars /\ [][(op = "intersect" /\ result.tag = "Err") =>
                   (result' = ReadyNone /\ out' = out)]_vars

\* an error has been returned with counts left in the accumulator and the
\* generation set, and the next poll returns end-of-stream
C39_Witness ==
    /\ op = "intersect"
    /\ result.tag = "Err"
    /\ isect.inputs = <<>>
    /\ Len(args) = 2
    /\ isect.current_generation # {}
    /\ \E h \in Hashes : isect.accumulator[h] = Len(args)
    /\ IntersectPoll(isect, <<>>, Min(Hashes)).res = ReadyNone

-----------------------------------------------------------------------------
(* The waves of AncestorsNodeStream *)

\* the generations of the waves yielded so far
WaveGenerations(o) == {repo.gen[o[i]] : i \in 1..Len(o)}

\* C35: when every lookup completes in the end, AncestorsNodeStream comes to
\* return end-of-stream; every bucket it pops is of a lower generation than
\* the one before, and of a higher generation than every bucket that stays,
\* so there are at most as many waves as the seed's generation.
C35_AncestorsTerminates ==
    /\ <>(op = "ancestors" /\ result = ReadyNone)
    /\ [][op = "ancestors" =>
            /\ (anc.drain = {} /\ result'.tag = "Item") =>
                 /\ repo.gen[result'.hash] < repo.gen[out[Len(out)]]
                 /\ \A g \in DOMAIN anc'.next_generation : g < repo.gen[result'.hash]
            /\ Cardinality(WaveGenerations(out')) <= repo.gen[args[1]]
       ]_vars

\* end-of-stream after three waves
C35_Witness ==
    /\ op = "ancestors"
    /\ result = ReadyNone
    /\ Cardinality(WaveGenerations(out)) = 3
    /\ repo.gen[args[1]] > 3

\* (hash, generation) is in a bucket of next_generation
Bucketed(ng, item) == item.gen \in DOMAIN ng /\ item.hash \in ng[item.gen]

\* C36: a poll that finds pending_changesets not ready returns NotReady and
\* keeps every bucket, and what pending_changesets delivered is bucketed;
\* pending_changesets is replaced only by a poll that has read it to its end,
\* and every parent it held is then in a bucket or in the wave that starts;
\* whatever the schedule, the hashes yielded up to end-of-stream are those
\* yielded when no lookup is ever not ready.
C36_StallKeepsBuckets ==
    [][op = "ancestors" =>
         /\ result' = NotReady =>
              /\ anc.drain = {} /\ anc'.drain = {}
              /\ \A g \in DOMAIN anc.next_generation :
                   g \in DOMAIN anc'.next_generation
                     /\ anc.next_generation[g] \subseteq anc'.next_generation[g]
              /\ \E k \in 0..Len(anc.pending_changesets) :
                   /\ anc'.pending_changesets =
                        SubSeq(anc.pending_changesets, k + 1, Len(anc.pending_changesets))
                   /\ \A i \in 1..k :
                        Bucketed(anc'.next_generation, anc.pending_changesets[i])
         /\ (anc.drain = {} /\ result'.tag \in {"Item", "End"}) =>
              \A i \in 1..Len(anc.pending_changesets) :
                 \/ Bucketed(anc'.next_generation, anc.pending_changesets[i])
                 \/ anc.pending_changesets[i].hash \in {result'.hash} \cup anc'.drain
         /\ (anc.drain # {}) => anc'.pending_changesets = anc.pending_changesets
         /\ result' = ReadyNone =>
              Range(out') = Range(RunAncestors(AncestorsNew(repo, args[1]), repo, <<>>))
    ]_vars

\* pending_changesets was not ready after it had delivered a parent: the
\* parent is bucketed and another is still pending
C36_Witness ==
    /\ op = "ancestors"
    /\ result = NotReady
    /\ DOMAIN anc.next_generation # {}
    /\ anc.pending_changesets # <<>>
    /\ Len(out) >= 2

-----------------------------------------------------------------------------
(* AncestorsNodeStream when lookups fail *)

\* C40: while the drain holds a hash of the wave, poll yields one of them and
\* leaves pending_changesets and next_generation alone; the first poll yields
\* the seed, also when the seed's changeset cannot be fetched; an error is
\* returned only by a poll that finds the drain empty, and it is the error of
\* a lookup started for a hash that has been yielded.
C40_WaveBeforeLookups ==
    [][op = "fallible" =>
         /\ anc.drain # {} =>
              /\ result'.tag = "Item"
              /\ result'.hash \in anc.drain
              /\ anc'.drain = anc.drain \ {result'.hash}
              /\ anc'.pending_changesets = anc.pending_changesets
              /\ anc'.next_generation = anc.next_generation
         /\ out = <<>> => out' = <<args.seed>>
         /\ result'.tag = "Err" =>
              /\ anc.drain = {}
              /\ out' = out
              /\ result'.err = ParentsFetchFailed =>
                   \E h \in Range(out) : h \in args.missing
              /\ result'.err = GenerationFetchFailed =>
                   \E h \in Range(out) : \E p \in repo.parents[h] : p \in args.nogen
    ]_vars

\* the seed's changeset cannot be fetched: the seed has been yielded and the
\* next poll has returned ParentsFetchFailed
C40_Witness ==
    /\ op = "fallible"
    /\ args.seed \in args.missing
    /\ out = <<args.seed>>
    /\ result = Err(ParentsFetchFailed)

\* the second wave has been yielded before the failure of a generation
\* lookup started for it is returned
C40_WaveThenGenerationError ==
    /\ op = "fallible"
    /\ Len(out) = 2
    /\ repo.gen[out[2]] < repo.gen[out[1]]
    /\ \E p \in repo.parents[out[2]] : p \in args.nogen
    /\ result = Err(GenerationFetchFailed)

-----------------------------------------------------------------------------
(* Garbage where a command should be *)

\* C37: when the buffer is not the start of any command's name and newline,
\* and does not start with one, parse returns an error in that very call, not
\* Ok(None), and the error carries the buffer.
C37_GarbageRejected ==
    (op = "parse" /\ Called /\ ~Extendable(before)) =>
       (reply.tag = "Err" /\ reply.buffer = before /\ buf = before)

\* heads followed by a space instead of the newline has been rejected while a
\* byte of the session was still to come
C37_Witness ==
    /\ op = "parse"
    /\ args.class = "garbage"
    /\ before = <<"h", "e", "a", "d", "s", " ">>
    /\ wire # <<>>
    /\ reply = ReplyErr(before, "Alt")

-----------------------------------------------------------------------------
(* Lists that end too early *)

\* the sub-parser of a list-typed field of the entry reports Incomplete on the
\* field's value in kv
ListIncomplete(entry, kv) ==
    \E f \in 1..Len(entry.fields) :
      /\ entry.fields[f].parser \in ListParsers
      /\ entry.fields[f].bytes \in DOMAIN kv
      /\ FieldParser(entry.fields[f].parser, kv[entry.fields[f].bytes]).tag = "Incomplete"

\* C38: when the parameters of a command have all been read and the
\* sub-parser of a list-typed field reports Incomplete on its value, the call
\* returns an error, neither Ok(None) nor a request, and keeps the buffer; a
\* list value of no bytes, and one that ends in a separator or in a separator
\* and the first byte of an element, are such values.
C38_IncompleteListRejected ==
    /\ (Called /\ \E c \in Matched(before, Dialect) :
                    ListIncomplete(Commands[c], ParamsOf(before, Commands[c], Dialect).val))
         => (reply.tag = "Err" /\ buf = before)
    /\ (Called /\ args.class = "shortlist" /\ before = args.input)
         => \E c \in Matched(before, Dialect) :
               ListIncomplete(Commands[c], ParamsOf(before, Commands[c], Dialect).val)

\* known with a nodes value of no bytes has been rejected
C38_Witness ==
    /\ op = "parse"
    /\ before = Line("Known") \o Star(<<>>) \o Named(Key("Known", "nodes"), <<>>)
    /\ wire = <<>>
    /\ hashlist(<<>>) = Incomplete
    /\ reply = ReplyErr(before, "Alt")

====
